---- MODULE Spec2Model ----
(***************************************************************************)
(* claude-sync: the setup / reconciliation state machine and the          *)
(* steady-state sync pipeline of Service.Run (package sync), over a model *)
(* of the configuration directory, its git repository and the remotes.    *)
(*                                                                         *)
(* One run of the tool is one pass from Discover to pc = "done".  The      *)
(* directory and the remotes persist from one run to the next; the        *)
(* variables of a run (pc, calls, result, ...) are reset by Discover.     *)
(***************************************************************************)
EXTENDS Integers, Sequences, FiniteSets, TLC

\* Number of successive runs of the tool on the same directory.
MaxRuns == 2

\* Remote URLs the user may type at a URL prompt ("" is the empty answer).
URLs == {"u1", "u2"}

\* Commit labels: the initial/local commit made by InitialCommit, a commit
\* that exists on the remote and was made elsewhere, the merge commit of
\* unrelated histories, and the auto-sync commit made by CommitChanges.
Commits == {"init", "remoteC", "merge", "auto"}

\* Content of the working directory: the user's local configuration, the
\* remote repository's content, the default .gitignore.
FileTags == {"local", "remote", "gitignore"}

\* Behaviours of Prompter.SpinWhile(message, task): it runs the task and
\* returns the task's error ("task"), or the wrapper itself fails and returns
\* an error of its own without the task having returned ("wrapperErr").
SpinModes == {"task", "wrapperErr"}

VARIABLES
    repo,        \* the configuration directory and its git repository
    remoteHist,  \* URL -> set of commits the remote repository holds
    pc,          \* position of the current run in Service.Run
    calls,       \* collaborator calls of the current run, in order
    result,      \* what Run returned: "running", "nil" or an error
    remoteURL,   \* the URL collected in the current run ("" if none)
    pullErr,     \* the captured pullErr of pullWithRebaseAndHandleConflicts
    path,        \* the path Discover dispatched the current run to
    start,       \* the directory as it was when the current run started
    logged,      \* level of the Logger message that reported the run's outcome
    runs,        \* number of runs started so far
    output,      \* the combined output captured from a failed git command
    cause,       \* the error the failed git command returned
    verdict,     \* operation -> the error the facade returned for the failure
    tree,        \* a working tree: its tracked files, untracked files and HEAD
    probe,       \* the last HasUncommittedChanges call on the tree
    committed,   \* the last CommitChanges call on the tree
    cmdPc,       \* position of the sync command (runSync) on the tree
    cmdCalls,    \* facade calls of the sync command, in order
    inv,         \* invocation -> the state of that run of the tool
    fs,          \* what the home directory, ~/.claude and ~/.claude/.git are
    serial,      \* whether the caller starts one invocation at a time
    model,       \* the tea.Model of the prompt at the terminal
    keys,        \* the key messages delivered to the prompt, in order
    answer       \* what Confirm or Input returned for the prompt

classifierVars == <<output, cause, verdict>>

treeVars == <<tree, probe, committed, cmdPc, cmdCalls>>

invVars == <<inv, fs, serial>>

promptVars == <<model, keys, answer>>

facadeVars == <<classifierVars, treeVars, invVars, promptVars>>

serviceVars == <<repo, remoteHist, pc, calls, result, remoteURL, pullErr, path, start, logged, runs>>

vars == <<serviceVars, facadeVars>>

runVars == <<pc, calls, result, remoteURL, pullErr, path, start, logged, runs>>

-----------------------------------------------------------------------------
(* The directory and the git facade                                        *)

NoDir ==
    [dirExists |-> FALSE, isRepo |-> FALSE, files |-> {}, hist |-> {},
     head |-> "", origin |-> "", upstream |-> FALSE, midRebase |-> FALSE,
     dirty |-> FALSE]

\* One record of the calls log: the operation, the URL it received ("" when
\* it takes none), the value it returned (a prompt's answer, a probe's
\* verdict, the kind of pull failure, what InitialCommit's branch
\* normalisation met; "" otherwise) and whether it returned
\* without error.
Call(op, arg, ret, ok) == [op |-> op, arg |-> arg, ret |-> ret, ok |-> ok]

\* IsGitRepo: the .git metadata directory is present.
IsGitRepo(r) == r.dirExists /\ r.isRepo

\* CreateClaudeDir: os.MkdirAll of the configuration path.
CreateClaudeDir(r) == [r EXCEPT !.dirExists = TRUE]

\* RemoveClaudeDir: os.RemoveAll of the configuration path.
RemoveClaudeDir(r) == NoDir

\* git init: needs the directory; creates the metadata directory.
CanInitRepo(r) == r.dirExists
InitRepo(r) == [r EXCEPT !.isRepo = TRUE]

\* SetupGitignore writes the default .gitignore into the directory.
CanSetupGitignore(r) == r.dirExists
SetupGitignore(r) == [r EXCEPT !.files = @ \cup {"gitignore"}]

\* InitialCommit: git add . ; git commit (fails when nothing is staged).
CanInitialCommit(r) == IsGitRepo(r) /\ r.files # {}
InitialCommit(r) == [r EXCEPT !.hist = @ \cup {"init"}, !.head = "init", !.dirty = FALSE]

\* What ensureDefaultBranch meets after the commit: the branch is already
\* 'main', `git branch -M main` renames it, reading the current branch fails,
\* or the rename fails.
BranchOutcomes == {"onMain", "renamed", "readFailed", "renameFailed"}

\* ensureDefaultBranch: the error it returns.
ensureDefaultBranch(outcome) ==
    IF outcome = "readFailed" THEN "getCurrentBranch"
    ELSE IF outcome = "onMain" THEN "nil"
    ELSE IF outcome = "renameFailed" THEN "failed to rename branch to main"
    ELSE "nil"

\* InitialCommit returning ensureDefaultBranch's error.
InitialCommitErr_RenameFatal(made, outcome) ==
    IF ~made THEN "InitialCommit"
    ELSE IF ensureDefaultBranch(outcome) # "nil" THEN "InitialCommit"
    ELSE "nil"

\* The error InitialCommit returns: a failure of `git add .` or of
\* `git commit`; an error of ensureDefaultBranch is dropped.
InitialCommitErr(made, outcome) ==
    IF ~made THEN "InitialCommit"
    ELSE IF ensureDefaultBranch(outcome) # "nil" THEN "nil"
    ELSE "nil"

\* git remote add origin url: fails when origin is already configured.
CanAddRemote(r) == IsGitRepo(r) /\ r.origin = ""
AddRemote(r, url) == [r EXCEPT !.origin = url]

\* git fetch origin.
CanFetch(r) == IsGitRepo(r) /\ r.origin # ""
Fetch(r) == r

\* git pull --no-rebase --allow-unrelated-histories: merges the remote
\* history into the local one, bringing the remote content.
CanPullAllowUnrelatedHistories(r, rh) ==
    IsGitRepo(r) /\ r.origin # "" /\ r.hist # {} /\ rh[r.origin] # {}
PullAllowUnrelatedHistories(r, rh) ==
    [r EXCEPT !.hist = @ \cup rh[r.origin] \cup {"merge"},
              !.head = "merge",
              !.files = @ \cup {"remote"}]

\* git push -u origin <branch>: a fast-forward of the remote; sets upstream.
CanPushWithUpstream(r, rh) ==
    IsGitRepo(r) /\ r.origin # "" /\ r.hist # {} /\ rh[r.origin] \subseteq r.hist
PushWithUpstream(r) == [r EXCEPT !.upstream = TRUE]
Pushed(r, rh) == [rh EXCEPT ![r.origin] = r.hist]

\* git clone url dest: needs dest absent or empty; brings the remote.
CanCloneRepo(r) == ~r.dirExists \/ (r.files = {} /\ ~r.isRepo)
CloneRepo(r, rh, url, h) ==
    [dirExists |-> TRUE, isRepo |-> TRUE,
     files |-> IF rh[url] # {} THEN {"remote"} ELSE {},
     hist |-> rh[url], head |-> h, origin |-> url, upstream |-> rh[url] # {},
     midRebase |-> FALSE, dirty |-> FALSE]
\* The commits the remote's branch may point to (none on an empty remote).
CloneHeads(rh, url) == IF rh[url] = {} THEN {""} ELSE rh[url]

\* RemoteHasCommits: any branch reference exists on the remote.
RemoteHasCommits(rh, url) == rh[url] # {}

\* GetChangedFiles: non-empty iff tracked files differ from HEAD.
HasChangedFiles(r) == r.dirty

\* CommitChanges: git add -u ; git commit (fails when nothing is staged).
CanCommitChanges(r) == IsGitRepo(r) /\ r.dirty /\ ~r.midRebase
\* git commit --amend in place of a new commit: HEAD keeps its message.
CommitChanges_Amend(r) == [r EXCEPT !.dirty = FALSE]

CommitChanges(r) == [r EXCEPT !.hist = @ \cup {"auto"}, !.head = "auto", !.dirty = FALSE]

\* git pull --rebase: needs a tracked upstream and no rebase in progress.
CanPullWithRebase(r) == IsGitRepo(r) /\ r.origin # "" /\ r.upstream /\ ~r.midRebase
PullWithRebase(r, rh, h) ==
    [r EXCEPT !.hist = @ \cup rh[r.origin],
              !.head = h,
              !.files = IF "remoteC" \in rh[r.origin] THEN @ \cup {"remote"} ELSE @]
\* HEAD after the pull: local commits the remote lacks are replayed on top,
\* so HEAD stays the newest local commit; otherwise the branch is moved to
\* the remote's tip, one of the commits that were fetched.
PullHeads(r, rh) ==
    IF r.origin = "" THEN {r.head}
    ELSE IF r.hist \subseteq rh[r.origin] /\ rh[r.origin] # r.hist
         THEN rh[r.origin] \ r.hist
         ELSE {r.head}
\* A pull that stops on a conflict leaves the rebase in progress.
PullConflict(r) == [r EXCEPT !.midRebase = TRUE]
CanPullConflict(r, rh) ==
    CanPullWithRebase(r) /\ ~(rh[r.origin] \subseteq r.hist) /\ ~(r.hist \subseteq rh[r.origin])

\* git push: a fast-forward of the tracked upstream.
CanPush(r, rh) ==
    IsGitRepo(r) /\ r.origin # "" /\ r.upstream /\ rh[r.origin] \subseteq r.hist

\* HasConflicts: some path is in the unmerged state.
HasConflicts(r) == r.midRebase

\* git rebase --abort.
CanAbortRebase(r) == IsGitRepo(r) /\ r.midRebase
AbortRebase(r) == [r EXCEPT !.midRebase = FALSE]

-----------------------------------------------------------------------------
(* The error classifier of the git facade                                  *)

\* Most diagnostic phrases one captured output is composed of.
MaxPhrases == 2

\* Diagnostic phrases of git and ssh that may occur in a captured output;
\* "early eof" stands for text that none of the classifiers looks for.
Phrases ==
    {"permission denied", "publickey", "authentication failed", "403",
     "could not resolve host", "connection timed out", "network",
     "repository not found", "does not appear to be a git repository",
     "not found", "empty repository",
     "warning: you appear to have cloned an empty repository",
     "no tracking information", "there is no tracking information",
     "early eof"}

\* The phrases that occur in a phrase as substrings.
SubPhrases(p) ==
    CASE p = "repository not found" -> {p, "not found"}
      [] p = "warning: you appear to have cloned an empty repository"
           -> {p, "empty repository"}
      [] p = "there is no tracking information"
           -> {p, "no tracking information"}
      [] OTHER -> {p}

\* A piece of output: a phrase, printed in lower case or with capitals
\* (digits have no case).
Tokens == {t \in [phrase : Phrases, upper : BOOLEAN] : t.phrase = "403" => ~t.upper}

\* The captured outputs: texts made of up to MaxPhrases pieces.
Outputs ==
    LET upTo[n \in 0..MaxPhrases] ==
            IF n = 0 THEN {{}}
            ELSE upTo[n - 1] \cup {o \cup {t} : o \in upTo[n - 1], t \in Tokens}
    IN  upTo[MaxPhrases]

\* The errors exec returns for a failed git command.
ExecErrors == {"exit status 1", "exit status 128"}

\* strings.ToLower without the lowering: the text as it was captured.
ToLower_Identity(out) == out

\* strings.ToLower(output)
ToLower(out) == {[phrase |-> t.phrase, upper |-> FALSE] : t \in out}

\* strings.Contains(s, pattern) for a lower-case pattern: case-sensitive.
Contains(s, pattern) == \E t \in s : ~t.upper /\ pattern \in SubPhrases(t.phrase)

\* The error fmt.Errorf builds: the category its text opens with, the
\* remediation text it carries ("" when none), the wrapped error (%w) and
\* the raw output it quotes.
Errorf(category, text, remediation, err, out) ==
    [category |-> category, text |-> text, remediation |-> remediation,
     err |-> err, output |-> out]

NoError == [category |-> "", text |-> "", remediation |-> "", err |-> "", output |-> {}]

\* enhancePushError, lines 151-206
enhancePushError(err, out) ==
    LET outputLower == ToLower(out)
    IN  IF Contains(outputLower, "permission denied") \/ Contains(outputLower, "publickey")
        THEN Errorf("ssh-auth", "SSH authentication failed", "ssh-key fixes", err, out)
        ELSE IF Contains(outputLower, "authentication failed") \/ Contains(outputLower, "403")
        THEN Errorf("https-auth", "authentication failed", "credential fixes", err, out)
        ELSE IF \/ Contains(outputLower, "could not resolve host")
                \/ Contains(outputLower, "connection timed out")
                \/ Contains(outputLower, "network")
        THEN Errorf("network", "network error", "connection fixes", err, out)
        ELSE IF \/ Contains(outputLower, "repository not found")
                \/ Contains(outputLower, "does not appear to be a git repository")
        THEN Errorf("repository-not-found", "repository not found", "remote fixes", err, out)
        ELSE Errorf("generic", "failed to push", "", err, out)

\* enhancePullError, lines 108-123
enhancePullError(err, out) ==
    LET outputLower == ToLower(out)
    IN  IF \/ Contains(outputLower, "no tracking information")
           \/ Contains(outputLower, "there is no tracking information")
        THEN Errorf("no-upstream", "no upstream branch configured", "upstream is set automatically", err, out)
        ELSE enhancePushError(err, out)

\* enhanceCloneError, lines 431-469
enhanceCloneError(err, out) ==
    LET outputLower == ToLower(out)
    IN  IF Contains(outputLower, "permission denied") \/ Contains(outputLower, "publickey")
        THEN Errorf("ssh-auth", "SSH authentication failed", "ssh-key fixes", err, out)
        ELSE IF \/ Contains(outputLower, "repository not found")
                \/ Contains(outputLower, "does not appear to be a git repository")
                \/ Contains(outputLower, "not found")
        THEN Errorf("repository-not-found", "repository not found", "check the URL", err, out)
        ELSE IF \/ Contains(outputLower, "empty repository")
                \/ Contains(outputLower, "warning: you appear to have cloned an empty repository")
        THEN Errorf("empty-repository", "repository is empty", "use Start fresh", err, out)
        ELSE Errorf("generic", "failed to clone repository", "", err, out)

\* The facade operations whose failure carries a captured output.
ClassifiedOps == {"Push", "PushWithUpstream", "PullWithRebase", "CloneRepo"}

\* The error each operation returns when its git command fails with err
\* and the captured output out: Push, lines 125-133; PushWithUpstream,
\* lines 143-147; PullWithRebase, lines 98-106; CloneRepo, lines 421-429.
FailureOf(op, err, out) ==
    CASE op = "Push"             -> Errorf("generic", "failed to push", "", err, out)
      [] op = "PushWithUpstream" -> enhancePushError(err, out)
      [] op = "PullWithRebase"   -> enhancePullError(err, out)
      [] op = "CloneRepo"        -> enhanceCloneError(err, out)

\* No git command has failed.
ClassifierIdle ==
    /\ output = {}
    /\ cause = ""
    /\ verdict = [op \in ClassifiedOps |-> NoError]

-----------------------------------------------------------------------------
(* The working tree, the change probe and the commit of the git facade     *)

\* Files HEAD tracks, and files the user may create that git does not track.
Tracked == {"settings.json", "CLAUDE.md"}

NewFiles == {"notes.txt"}

\* Messages GenerateAutoCommitMessage may produce.
Messages == {"Auto-sync at 10:00", "Auto-sync at 11:00"}

\* A tracked file is as in HEAD ("clean"), edited ("modified"), removed
\* from the working tree ("deleted"), or removed with the removal
\* committed ("removed").
Trees ==
    [valid : BOOLEAN, files : [Tracked -> {"clean", "modified", "deleted"}],
     untracked : SUBSET NewFiles, headMsg : {"Initial commit"}]

\* The tracked files that differ from HEAD.
Changed(t) == {f \in Tracked : t.files[f] \in {"modified", "deleted"}}

\* How a git subprocess ended: it ran and exited with a code, or it could
\* not be run at all (no exit code).
Exit(code) == [started |-> TRUE, code |-> code]

NotStarted == [started |-> FALSE, code |-> -1]

\* git diff-index --cached: the index against HEAD, so that an edit that
\* is not staged goes unnoticed.
DiffIndex_CachedOnly(t) == IF ~t.valid THEN Exit(128) ELSE Exit(0)

\* A probe in the manner of git status --porcelain: untracked files count.
DiffIndex_WithUntracked(t) ==
    IF ~t.valid THEN Exit(128)
    ELSE IF Changed(t) # {} \/ t.untracked # {} THEN Exit(1)
    ELSE Exit(0)

\* git diff-index --quiet HEAD --: 0 when no tracked file differs from
\* HEAD, 1 when one does, 128 when HEAD does not resolve.
DiffIndex(t) ==
    IF ~t.valid THEN Exit(128)
    ELSE IF Changed(t) # {} THEN Exit(1)
    ELSE Exit(0)

\* The outcomes cmd.Run() of the probe can have on a tree.
DiffIndexRuns(t) == {DiffIndex(t), NotStarted}

\* HasUncommittedChanges with every exit error read as "changes exist".
HasUncommittedChanges_AnyExitIsChange(run) ==
    IF run.started /\ run.code = 0
    THEN [changes |-> FALSE, err |-> "nil"]
    ELSE IF run.started
    THEN [changes |-> TRUE, err |-> "nil"]
    ELSE [changes |-> FALSE, err |-> "diff-index"]

\* HasUncommittedChanges, lines 51-66, on the outcome of cmd.Run()
HasUncommittedChanges(run) ==
    IF run.started /\ run.code = 0
    THEN [changes |-> FALSE, err |-> "nil"]
    ELSE IF run.started /\ run.code = 1
    THEN [changes |-> TRUE, err |-> "nil"]
    ELSE [changes |-> FALSE, err |-> "diff-index"]

\* CommitChanges staging with "git add -A": untracked files are staged too.
CommitChangesOn_AddAll(t, message, addOk, commitOk) ==
    IF ~t.valid \/ ~addOk
    THEN [err |-> "add", tree |-> t]
    ELSE IF (Changed(t) = {} /\ t.untracked = {}) \/ ~commitOk
    THEN [err |-> "commit", tree |-> t]
    ELSE [err |-> "nil",
          tree |-> [t EXCEPT
                      !.files = [f \in Tracked |->
                                   CASE t.files[f] = "modified" -> "clean"
                                     [] t.files[f] = "deleted"  -> "removed"
                                     [] OTHER -> t.files[f]],
                      !.untracked = {},
                      !.headMsg = message]]

\* CommitChanges, lines 83-96: "git add -u" stages the tracked files that
\* differ from HEAD; "git commit -m message" fails when nothing is staged.
\* addOk and commitOk are whether the two commands can otherwise succeed.
CommitChangesOn(t, message, addOk, commitOk) ==
    IF ~t.valid \/ ~addOk
    THEN [err |-> "add", tree |-> t]
    ELSE IF Changed(t) = {} \/ ~commitOk
    THEN [err |-> "commit", tree |-> t]
    ELSE [err |-> "nil",
          tree |-> [t EXCEPT
                      !.files = [f \in Tracked |->
                                   CASE t.files[f] = "modified" -> "clean"
                                     [] t.files[f] = "deleted"  -> "removed"
                                     [] OTHER -> t.files[f]],
                      !.headMsg = message]]

NoProbe == [run |-> NotStarted, changes |-> FALSE, err |-> "none",
            changed |-> {}, untracked |-> {}]

NoCommit == [message |-> "", err |-> "none", untracked |-> {}]

\* No working tree is exercised: HEAD resolves and nothing is changed.
WorkTreeIdle ==
    /\ tree = [valid |-> TRUE, files |-> [f \in Tracked |-> "clean"],
               untracked |-> {}, headMsg |-> "Initial commit"]
    /\ probe = NoProbe
    /\ committed = NoCommit
    /\ cmdPc = "idle"
    /\ cmdCalls = <<>>

-----------------------------------------------------------------------------
(* Invocations of the tool: directory probes, subprocesses, cancellation   *)

\* Invocations of the tool on the same configuration directory.
Procs == {"p1", "p2"}

\* The commands of the tool that run git.
Commands == {"sync", "status"}

\* What os.Stat finds at a path: a directory, nothing, or an error other
\* than "does not exist" (permission denied, I/O error).
StatOutcomes == {"dir", "notexist", "ioerror"}

\* Whether the home directory resolves, and what stat finds at ~/.claude and
\* at ~/.claude/.git.
FsStates ==
    {f \in [home : BOOLEAN, dirStat : StatOutcomes, gitStat : StatOutcomes] :
        /\ ~f.home => f.dirStat = "notexist"
        /\ f.dirStat # "dir" => f.gitStat = "notexist"}

NoFs == [home |-> TRUE, dirStat |-> "notexist", gitStat |-> "notexist"]

\* ClaudeDirPath, lines 471-482
ClaudeDirPath(f) == IF f.home THEN "nil" ELSE "get home directory"

\* ClaudeDirExists returning false on every failure.
ClaudeDirExists_NeverFails(f) ==
    [exists |-> f.home /\ f.dirStat = "dir", err |-> "nil"]

\* ClaudeDirExists, lines 484-498
ClaudeDirExists(f) ==
    IF ClaudeDirPath(f) # "nil" THEN [exists |-> FALSE, err |-> ClaudeDirPath(f)]
    ELSE IF f.dirStat = "notexist" THEN [exists |-> FALSE, err |-> "nil"]
    ELSE IF f.dirStat = "ioerror" THEN [exists |-> FALSE, err |-> "stat"]
    ELSE [exists |-> TRUE, err |-> "nil"]

\* GetClaudeDir, lines 28-50: only "does not exist" is an error of the stat.
GetClaudeDir(f) ==
    IF ~f.home THEN "get home directory"
    ELSE IF f.dirStat = "notexist" THEN "access"
    ELSE "nil"

\* IsGitRepo, lines 271-279, on what stat finds at .git
IsGitRepoOn(f) == f.gitStat = "dir"

\* One step of a run: the facade operation, how it reaches the system (a
\* subprocess made with exec.CommandContext, one made with exec.Command, or
\* the filesystem directly), whether it modifies the repository or its
\* remote, and whether its failure ends the run.
Step(op, via, modifies, fatal) ==
    [op |-> op, via |-> via, modifies |-> modifies, fatal |-> fatal]

\* The steps of the steady-state sync (Run, lines 59-77), of the fresh
\* initialisation of an existing directory (runInitFlow, executeFreshInit),
\* of the first-time setup (runFirstTimeSetup creates the directory first),
\* and of the status command (runStatus, src/cmd/status.go lines 30-66).
Plan(name) ==
    CASE name = "sync" ->
           <<Step("GetChangedFiles", "CommandContext", FALSE, TRUE),
             Step("CommitChanges", "CommandContext", TRUE, TRUE),
             Step("PullWithRebase", "CommandContext", TRUE, TRUE),
             Step("Push", "CommandContext", TRUE, TRUE),
             Step("GetRecentCommits", "CommandContext", FALSE, FALSE)>>
      [] name = "setup" ->
           <<Step("ValidateRemote", "CommandContext", FALSE, TRUE),
             Step("RemoteHasCommits", "CommandContext", FALSE, FALSE),
             Step("InitRepo", "CommandContext", TRUE, TRUE),
             Step("SetupGitignore", "fs", TRUE, TRUE),
             Step("InitialCommit", "CommandContext", TRUE, TRUE),
             Step("AddRemote", "CommandContext", TRUE, TRUE),
             Step("PushWithUpstream", "CommandContext", TRUE, TRUE)>>
      [] name = "firstSetup" ->
           <<Step("CreateClaudeDir", "fs", TRUE, TRUE),
             Step("ValidateRemote", "CommandContext", FALSE, TRUE),
             Step("RemoteHasCommits", "CommandContext", FALSE, FALSE),
             Step("InitRepo", "CommandContext", TRUE, TRUE),
             Step("SetupGitignore", "fs", TRUE, TRUE),
             Step("InitialCommit", "CommandContext", TRUE, TRUE),
             Step("AddRemote", "CommandContext", TRUE, TRUE),
             Step("PushWithUpstream", "CommandContext", TRUE, TRUE)>>
      [] name = "status" ->
           <<Step("GetBranchInfo", "CommandContext", FALSE, TRUE),
             Step("getRemoteURL", "Command", FALSE, FALSE),
             Step("HasUncommittedChanges", "CommandContext", FALSE, FALSE)>>
      [] OTHER -> <<>>

\* An invocation that has not been started.
IdleInv ==
    [state |-> "idle", cmd |-> "none", plan |-> "none", step |-> 0,
     sub |-> "none", late |-> FALSE, cancelled |-> FALSE, result |-> "none",
     seen |-> NoFs, exists |-> FALSE, isRepo |-> FALSE, lateMod |-> FALSE]

\* No invocation is exercised.
InvocationsIdle ==
    /\ inv = [p \in Procs |-> IdleInv]
    /\ fs = NoFs
    /\ serial = TRUE

-----------------------------------------------------------------------------
(* The interactive prompts (package prompts)                               *)

\* The most keys delivered to one prompt.
MaxKeys == 4

\* Keys the terminal delivers to a prompt: the answer keys of the
\* confirmation, the two cancelling keys, Enter, and runes that are text.
Keys == {"y", "Y", "n", "N", "esc", "ctrl+c", "enter", "a", " "}

\* The keys that are runes: the text input inserts them into its value.
Runes == {"y", "Y", "n", "N", "a", " "}

\* confirmModel.Update: y/Y answer yes, n/N and Esc/Ctrl+C answer no, each
\* with tea.Quit; any other message leaves the model as it is.
confirmModel_Update(m, key) ==
    CASE key \in {"y", "Y"}        -> [m EXCEPT !.response = TRUE, !.done = TRUE]
      [] key \in {"n", "N"}        -> [m EXCEPT !.response = FALSE, !.done = TRUE]
      [] key \in {"ctrl+c", "esc"} -> [m EXCEPT !.response = FALSE, !.done = TRUE]
      [] OTHER                     -> m

\* inputModel.Update: Enter quits with the value as typed, Esc/Ctrl+C quit
\* after SetValue(""); any other message goes to the text input, which
\* inserts a rune at the end of its value.
inputModel_Update(m, key) ==
    CASE key = "enter"             -> [m EXCEPT !.done = TRUE]
      [] key \in {"ctrl+c", "esc"} -> [m EXCEPT !.done = TRUE, !.value = <<>>]
      [] key \in Runes             -> [m EXCEPT !.value = Append(@, key)]
      [] OTHER                     -> m

\* A conversion of the final value that leaves it as typed.
TrimSpace_Identity(s) == s

\* strings.TrimSpace: the value without its leading and trailing spaces.
RECURSIVE TrimSpace(_)
TrimSpace(s) ==
    IF s = <<>> THEN s
    ELSE IF Head(s) = " " THEN TrimSpace(Tail(s))
    ELSE IF s[Len(s)] = " " THEN TrimSpace(SubSeq(s, 1, Len(s) - 1))
    ELSE s

\* Confirm and Input: what they return for the program's final model, and
\* the neutral value with the error when the program's Run fails.
Confirm(final, runErr) ==
    IF runErr THEN [returned |-> TRUE, response |-> FALSE, text |-> <<>>, err |-> TRUE]
    ELSE [returned |-> TRUE, response |-> final.response, text |-> <<>>, err |-> FALSE]

Input(final, runErr) ==
    IF runErr THEN [returned |-> TRUE, response |-> FALSE, text |-> <<>>, err |-> TRUE]
    ELSE [returned |-> TRUE, response |-> FALSE, text |-> TrimSpace(final.value),
          err |-> FALSE]

\* The models Confirm and Input start their programs with.
NewModel(kind) == [kind |-> kind, response |-> FALSE, value |-> <<>>, done |-> FALSE]

\* Nothing returned yet.
NoAnswer == [returned |-> FALSE, response |-> FALSE, text |-> <<>>, err |-> FALSE]

PromptsIdle ==
    /\ model = NewModel("none")
    /\ keys = <<>>
    /\ answer = NoAnswer

-----------------------------------------------------------------------------
(* Initial states                                                          *)

\* The directories a first run can find: absent; present but not a
\* repository (empty, or holding local configuration); an established
\* repository that tracks one of the remotes.
InitialRepos ==
    {NoDir}
    \cup {[NoDir EXCEPT !.dirExists = TRUE, !.files = f] : f \in {{}, {"local"}}}
    \cup {[dirExists |-> TRUE, isRepo |-> TRUE, files |-> {"local", "gitignore"},
           hist |-> {"init"}, head |-> "init", origin |-> u, upstream |-> TRUE,
           midRebase |-> FALSE, dirty |-> d] : u \in URLs, d \in BOOLEAN}

Init ==
    /\ repo \in InitialRepos
    /\ remoteHist \in [URLs -> {{}, {"remoteC"}, {"init"}, {"init", "remoteC"}}]
    /\ \A u \in URLs :
          IF repo.isRepo /\ repo.origin = u
          THEN "init" \in remoteHist[u]
          ELSE "init" \notin remoteHist[u]
    /\ pc = "idle"
    /\ calls = <<>>
    /\ result = "running"
    /\ remoteURL = ""
    /\ pullErr = "nil"
    /\ path = "none"
    /\ start = repo
    /\ logged = "none"
    /\ runs = 0
    /\ ClassifierIdle
    /\ WorkTreeIdle
    /\ InvocationsIdle
    /\ PromptsIdle

-----------------------------------------------------------------------------
(* Service.Run                                                             *)

\* The error runInitFlow returns when the remote cannot be validated.
NotAccessible == "remote repository not accessible"

\* The error handlePullError returns after a detected conflict.
ConflictError == "merge conflicts detected - sync aborted"

\* logger.Error(...); return err  /  logger.Success(...); return nil
Return(err) ==
    /\ pc' = "done"
    /\ result' = err
    /\ logged' = IF err = "nil" THEN "success" ELSE "error"
    /\ UNCHANGED facadeVars

\* logger.Info("Setup cancelled ..."); return nil
ReturnCancelled ==
    /\ pc' = "done"
    /\ result' = "nil"
    /\ logged' = "info"
    /\ UNCHANGED facadeVars

Goto(next) ==
    /\ pc' = next
    /\ result' = result
    /\ logged' = logged
    /\ UNCHANGED facadeVars

Log(entries) == calls' = calls \o entries

\* The dispatch of Run without the IsGitRepo test.
RunDispatch_NoRepoTest(r) ==
    IF ~r.dirExists THEN "first" ELSE "sync"

\* The dispatch of Run sending a repository whose setup never pushed back to
\* the setup flow.
RunDispatch_SetupUntilUpstream(r) ==
    IF ~r.dirExists THEN "first"
    ELSE IF ~IsGitRepo(r) \/ ~r.upstream THEN "init"
    ELSE "sync"

\* The three-way dispatch of Run.
RunDispatch(r) ==
    IF ~r.dirExists THEN "first"
    ELSE IF ~IsGitRepo(r) THEN "init"
    ELSE "sync"

EntryOf(p) ==
    CASE p = "first" -> "FirstTimeChoice"
      [] p = "init"  -> "InitPrompt"
      [] p = "sync"  -> "CommitLocalChanges"

\* Run, lines 27-57: the directory probes and the dispatch.
Discover ==
    /\ pc \in {"idle", "done"}
    /\ runs < MaxRuns
    /\ runs' = runs + 1
    /\ start' = repo
    /\ remoteURL' = ""
    /\ pullErr' = "nil"
    /\ UNCHANGED <<repo, remoteHist>>
    /\ \E existsErr \in BOOLEAN, dirErr \in BOOLEAN :
          IF existsErr
          THEN /\ calls' = <<Call("ClaudeDirExists", "", "", FALSE)>>
               /\ path' = "none"
               /\ Return("ClaudeDirExists")
          ELSE IF dirErr
          THEN LET op == IF repo.dirExists THEN "GetClaudeDir" ELSE "ClaudeDirPath"
               IN  /\ calls' = <<Call("ClaudeDirExists", "", "", TRUE), Call(op, "", "", FALSE)>>
                   /\ path' = "none"
                   /\ Return(op)
          ELSE LET op == IF repo.dirExists THEN "GetClaudeDir" ELSE "ClaudeDirPath"
               IN  /\ calls' = <<Call("ClaudeDirExists", "", "", TRUE), Call(op, "", "", TRUE)>>
                   /\ path' = RunDispatch(repo)
                   /\ pc' = EntryOf(RunDispatch(repo))
                   /\ result' = "running"
                   /\ logged' = "none"
                   /\ UNCHANGED facadeVars

\* runFirstTimeSetup, lines 190-208: the FirstTimeChoice selection.
FirstTimeChoice ==
    /\ pc = "FirstTimeChoice"
    /\ UNCHANGED <<repo, remoteHist, remoteURL, pullErr, path, start, runs>>
    /\ \E ans \in {"err", "", "clone", "fresh"} :
          /\ Log(<<Call("Select:FirstTimeChoice", "", ans, ans # "err")>>)
          /\ CASE ans = "err"   -> Return("Select")
               [] ans = ""      -> ReturnCancelled
               [] ans = "clone" -> Goto("CloneInput")
               [] OTHER         -> Goto("CreateClaudeDir")

\* runFirstTimeSetup, lines 210-219: create the directory, then InitPrompt.
FirstTimeCreateDir ==
    /\ pc = "CreateClaudeDir"
    /\ UNCHANGED <<remoteHist, remoteURL, pullErr, path, start, runs>>
    /\ \E ok \in BOOLEAN :
          /\ Log(<<Call("CreateClaudeDir", "", "", ok)>>)
          /\ IF ok
             THEN repo' = CreateClaudeDir(repo) /\ Goto("InitPrompt")
             ELSE repo' = repo /\ Return("CreateClaudeDir")

\* runCloneFlow treating the empty URL as runInitFlow does.
CloneInput_EmptyIsError ==
    /\ pc = "CloneInput"
    /\ UNCHANGED <<repo, remoteHist, pullErr, path, start, runs>>
    /\ \E ans \in URLs \cup {"", "err"} :
          /\ Log(<<Call("Input:Clone", "", ans, ans # "err")>>)
          /\ CASE ans = "err" -> Return("Input") /\ remoteURL' = remoteURL
               [] ans = ""    -> Return("setup cancelled") /\ remoteURL' = remoteURL
               [] OTHER       -> Goto("CloneRepo") /\ remoteURL' = ans

\* runCloneFlow, lines 224-245: ask for the URL when none is known.
CloneInput ==
    /\ pc = "CloneInput"
    /\ UNCHANGED <<repo, remoteHist, pullErr, path, start, runs>>
    /\ \E ans \in URLs \cup {"", "err"} :
          /\ Log(<<Call("Input:Clone", "", ans, ans # "err")>>)
          /\ CASE ans = "err" -> Return("Input") /\ remoteURL' = remoteURL
               [] ans = ""    -> ReturnCancelled /\ remoteURL' = remoteURL
               [] OTHER       -> Goto("CloneRepo") /\ remoteURL' = ans

\* runCloneFlow reporting success although the clone failed.
CloneFlow_SwallowError ==
    /\ pc = "CloneRepo"
    /\ UNCHANGED <<remoteHist, remoteURL, pullErr, path, start, runs>>
    /\ \E mode \in SpinModes, ok \in BOOLEAN, h \in CloneHeads(remoteHist, remoteURL) :
          IF mode = "wrapperErr"
          THEN /\ Log(<<Call("SpinWhile", "", "", FALSE)>>)
               /\ repo' = repo
               /\ Return("SpinWhile")
          ELSE /\ ok => CanCloneRepo(repo)
               /\ Log(<<Call("CloneRepo", remoteURL, "", ok)>>)
               /\ repo' = IF ok THEN CloneRepo(repo, remoteHist, remoteURL, h) ELSE repo
               /\ Return("nil")

\* runCloneFlow falling back to a fresh initialisation when the clone fails.
CloneFlow_FallbackToFresh ==
    /\ pc = "CloneRepo"
    /\ UNCHANGED <<remoteHist, remoteURL, pullErr, path, start, runs>>
    /\ \E mode \in SpinModes, ok \in BOOLEAN, h \in CloneHeads(remoteHist, remoteURL) :
          IF mode = "wrapperErr"
          THEN /\ Log(<<Call("SpinWhile", "", "", FALSE)>>)
               /\ repo' = repo
               /\ Return("SpinWhile")
          ELSE /\ ok => CanCloneRepo(repo)
               /\ Log(<<Call("CloneRepo", remoteURL, "", ok)>>)
               /\ IF ok
                  THEN repo' = CloneRepo(repo, remoteHist, remoteURL, h) /\ Return("nil")
                  ELSE repo' = repo /\ Goto("Fresh_InitRepo")

\* runCloneFlow, lines 247-270: the spinner-wrapped clone.
CloneFlow ==
    /\ pc = "CloneRepo"
    /\ UNCHANGED <<remoteHist, remoteURL, pullErr, path, start, runs>>
    /\ \E mode \in SpinModes, ok \in BOOLEAN, h \in CloneHeads(remoteHist, remoteURL) :
          IF mode = "wrapperErr"
          THEN /\ Log(<<Call("SpinWhile", "", "", FALSE)>>)
               /\ repo' = repo
               /\ Return("SpinWhile")
          ELSE /\ ok => CanCloneRepo(repo)
               /\ Log(<<Call("CloneRepo", remoteURL, "", ok)>>)
               /\ IF ok
                  THEN repo' = CloneRepo(repo, remoteHist, remoteURL, h) /\ Return("nil")
                  ELSE repo' = repo /\ Return("CloneRepo")

\* runInitFlow going on to the URL prompt although the user declined.
InitPrompt_DeclineIgnored ==
    /\ pc = "InitPrompt"
    /\ UNCHANGED <<repo, remoteHist, remoteURL, pullErr, path, start, runs>>
    /\ \E ans \in {"err", "yes", "no"} :
          /\ Log(<<Call("Confirm", "", ans, ans # "err")>>)
          /\ CASE ans = "err" -> Return("Confirm")
               [] OTHER       -> Goto("InitInput")

\* runInitFlow, lines 281-291: the InitPrompt confirmation.
InitPrompt ==
    /\ pc = "InitPrompt"
    /\ UNCHANGED <<repo, remoteHist, remoteURL, pullErr, path, start, runs>>
    /\ \E ans \in {"err", "yes", "no"} :
          /\ Log(<<Call("Confirm", "", ans, ans # "err")>>)
          /\ CASE ans = "err" -> Return("Confirm")
               [] ans = "no"  -> ReturnCancelled
               [] OTHER       -> Goto("InitInput")

\* runInitFlow, lines 302-316: collect the remote URL.
InitInput ==
    /\ pc = "InitInput"
    /\ UNCHANGED <<repo, remoteHist, pullErr, path, start, runs>>
    /\ \E ans \in URLs \cup {"", "err"} :
          /\ Log(<<Call("Input:Init", "", ans, ans # "err")>>)
          /\ CASE ans = "err" -> Return("Input") /\ remoteURL' = remoteURL
               [] ans = ""    -> Return("setup cancelled") /\ remoteURL' = remoteURL
               [] OTHER       -> Goto("ValidateRemote") /\ remoteURL' = ans

\* runInitFlow going on to RemoteStateCheck whatever the validation returned.
InitValidate_IgnoreFailure ==
    /\ pc = "ValidateRemote"
    /\ UNCHANGED <<repo, remoteHist, remoteURL, pullErr, path, start, runs>>
    /\ \E mode \in SpinModes, ok \in BOOLEAN :
          IF mode = "wrapperErr"
          THEN /\ Log(<<Call("SpinWhile", "", "", FALSE)>>)
               /\ Return(NotAccessible)
          ELSE /\ Log(<<Call("ValidateRemote", remoteURL, "", ok)>>)
               /\ Goto("RemoteStateCheck")

\* runInitFlow asking for the URL again when the validation fails.
InitValidate_AskAgain ==
    /\ pc = "ValidateRemote"
    /\ UNCHANGED <<repo, remoteHist, remoteURL, pullErr, path, start, runs>>
    /\ \E mode \in SpinModes, ok \in BOOLEAN :
          IF mode = "wrapperErr"
          THEN /\ Log(<<Call("SpinWhile", "", "", FALSE)>>)
               /\ Return(NotAccessible)
          ELSE /\ Log(<<Call("ValidateRemote", remoteURL, "", ok)>>)
               /\ IF ok THEN Goto("RemoteStateCheck") ELSE Goto("InitInput")

\* runInitFlow, lines 318-338: validate the remote, then RemoteStateCheck.
InitValidate ==
    /\ pc = "ValidateRemote"
    /\ UNCHANGED <<repo, remoteHist, remoteURL, pullErr, path, start, runs>>
    /\ \E mode \in SpinModes, ok \in BOOLEAN :
          IF mode = "wrapperErr"
          THEN /\ Log(<<Call("SpinWhile", "", "", FALSE)>>)
               /\ Return(NotAccessible)
          ELSE /\ Log(<<Call("ValidateRemote", remoteURL, "", ok)>>)
               /\ IF ok
                  THEN Goto("RemoteStateCheck")
                  ELSE Return(NotAccessible)

\* The pattern `if err := s.git.Op(...); err != nil { return err }`:
\* the operation succeeds only when git can perform it; on success its
\* effect is applied and the run moves on, on failure Run returns its error.
PlainStep(op, arg, can, newRepo, next) ==
    \E ok \in BOOLEAN :
       /\ ok => can
       /\ Log(<<Call(op, arg, "", ok)>>)
       /\ IF ok
          THEN repo' = newRepo /\ Goto(next)
          ELSE repo' = repo /\ Return(op)

\* The pattern `err := s.prompter.SpinWhile(msg, func() error { return
\* s.git.Op(...) }); if err != nil { return err }`.
SpunStep(op, arg, can, newRepo, newRemote, next) ==
    \E mode \in SpinModes, ok \in BOOLEAN :
       IF mode = "wrapperErr"
       THEN /\ Log(<<Call("SpinWhile", "", "", FALSE)>>)
            /\ repo' = repo /\ remoteHist' = remoteHist
            /\ Return("SpinWhile")
       ELSE /\ ok => can
            /\ Log(<<Call(op, arg, "", ok)>>)
            /\ IF ok
               THEN /\ repo' = newRepo /\ remoteHist' = newRemote
                    /\ IF next = "done" THEN Return("nil") ELSE Goto(next)
               ELSE /\ repo' = repo /\ remoteHist' = remoteHist
                    /\ Return(op)

\* The pattern `if err := s.git.InitialCommit(ctx, dir, msg); err != nil {
\* return err }`: the call's record keeps what ensureDefaultBranch met.
InitialCommitStep(next) ==
    \E made \in BOOLEAN, outcome \in BranchOutcomes :
       LET err == InitialCommitErr(made, outcome) IN
       /\ made => CanInitialCommit(repo)
       /\ Log(<<Call("InitialCommit", "", IF made THEN outcome ELSE "", err = "nil")>>)
       /\ repo' = IF made THEN InitialCommit(repo) ELSE repo
       /\ IF err = "nil" THEN Goto(next) ELSE Return("InitialCommit")

\* handleRemoteState that treats a probe error as 'has history'.
HandleRemoteState_ErrAsHistory ==
    /\ pc = "RemoteStateCheck"
    /\ UNCHANGED <<repo, remoteHist, remoteURL, pullErr, path, start, runs>>
    /\ \E probeErr \in BOOLEAN :
          IF probeErr
          THEN /\ Log(<<Call("RemoteHasCommits", remoteURL, "", FALSE)>>)
               /\ Goto("ConflictChoice")
          ELSE /\ Log(<<Call("RemoteHasCommits", remoteURL,
                            IF RemoteHasCommits(remoteHist, remoteURL) THEN "true" ELSE "false",
                            TRUE)>>)
               /\ IF RemoteHasCommits(remoteHist, remoteURL)
                  THEN Goto("ConflictChoice")
                  ELSE Goto("Fresh_InitRepo")

\* handleRemoteState, lines 342-354: route on the remote-history probe.
HandleRemoteState ==
    /\ pc = "RemoteStateCheck"
    /\ UNCHANGED <<repo, remoteHist, remoteURL, pullErr, path, start, runs>>
    /\ \E probeErr \in BOOLEAN :
          IF probeErr
          THEN /\ Log(<<Call("RemoteHasCommits", remoteURL, "", FALSE)>>)
               /\ Goto("Fresh_InitRepo")
          ELSE /\ Log(<<Call("RemoteHasCommits", remoteURL,
                            IF RemoteHasCommits(remoteHist, remoteURL) THEN "true" ELSE "false",
                            TRUE)>>)
               /\ IF RemoteHasCommits(remoteHist, remoteURL)
                  THEN Goto("ConflictChoice")
                  ELSE Goto("Fresh_InitRepo")

\* handleRemoteWithCommits without the `case "cancel", ""` arm ahead of a
\* default that merges.
HandleRemoteWithCommits_DefaultMerges ==
    /\ pc = "ConflictChoice"
    /\ UNCHANGED <<repo, remoteHist, remoteURL, pullErr, path, start, runs>>
    /\ \E ans \in {"err", "", "replace", "merge", "cancel"} :
          /\ Log(<<Call("Select:ConflictChoice", "", ans, ans # "err")>>)
          /\ CASE ans = "err"     -> Return("Select")
               [] ans = "replace" -> Goto("Replace")
               [] OTHER           -> Goto("Merge_InitRepo")

\* handleRemoteWithCommits whose switch falls through to the replacement for
\* every selection other than 'merge'.
HandleRemoteWithCommits_DefaultReplaces ==
    /\ pc = "ConflictChoice"
    /\ UNCHANGED <<repo, remoteHist, remoteURL, pullErr, path, start, runs>>
    /\ \E ans \in {"err", "", "replace", "merge", "cancel"} :
          /\ Log(<<Call("Select:ConflictChoice", "", ans, ans # "err")>>)
          /\ CASE ans = "err"   -> Return("Select")
               [] ans = "merge" -> Goto("Merge_InitRepo")
               [] OTHER         -> Goto("Replace")

\* handleRemoteWithCommits, lines 357-384: the ConflictChoice selection.
HandleRemoteWithCommits ==
    /\ pc = "ConflictChoice"
    /\ UNCHANGED <<repo, remoteHist, remoteURL, pullErr, path, start, runs>>
    /\ \E ans \in {"err", "", "replace", "merge", "cancel"} :
          /\ Log(<<Call("Select:ConflictChoice", "", ans, ans # "err")>>)
          /\ CASE ans = "err"     -> Return("Select")
               [] ans = "replace" -> Goto("Replace")
               [] ans = "merge"   -> Goto("Merge_InitRepo")
               [] OTHER           -> ReturnCancelled

\* executeFreshInit, lines 388-394.
FreshInitRepo ==
    /\ pc = "Fresh_InitRepo"
    /\ UNCHANGED <<remoteHist, remoteURL, pullErr, path, start, runs>>
    /\ PlainStep("InitRepo", "", CanInitRepo(repo), InitRepo(repo), "Fresh_SetupGitignore")

\* executeFreshInit, lines 396-403.
FreshSetupGitignore ==
    /\ pc = "Fresh_SetupGitignore"
    /\ UNCHANGED <<remoteHist, remoteURL, pullErr, path, start, runs>>
    /\ PlainStep("SetupGitignore", "", CanSetupGitignore(repo), SetupGitignore(repo),
                 "Fresh_InitialCommit")

\* executeFreshInit going on to AddRemote after a failed InitialCommit.
FreshInitialCommit_IgnoreError ==
    /\ pc = "Fresh_InitialCommit"
    /\ UNCHANGED <<remoteHist, remoteURL, pullErr, path, start, runs>>
    /\ \E ok \in BOOLEAN :
          /\ ok => CanInitialCommit(repo)
          /\ Log(<<Call("InitialCommit", "", "", ok)>>)
          /\ repo' = IF ok THEN InitialCommit(repo) ELSE repo
          /\ Goto("Fresh_AddRemote")

\* executeFreshInit, lines 405-411.
FreshInitialCommit ==
    /\ pc = "Fresh_InitialCommit"
    /\ UNCHANGED <<remoteHist, remoteURL, pullErr, path, start, runs>>
    /\ InitialCommitStep("Fresh_AddRemote")

\* executeFreshInit adding some remote other than the one it was given.
FreshAddRemote_AnyURL ==
    /\ pc = "Fresh_AddRemote"
    /\ UNCHANGED <<remoteHist, remoteURL, pullErr, path, start, runs>>
    /\ \E u \in URLs :
          PlainStep("AddRemote", u, CanAddRemote(repo), AddRemote(repo, u),
                    "Fresh_PushWithUpstream")

\* executeFreshInit, lines 413-419.
FreshAddRemote ==
    /\ pc = "Fresh_AddRemote"
    /\ UNCHANGED <<remoteHist, remoteURL, pullErr, path, start, runs>>
    /\ PlainStep("AddRemote", remoteURL, CanAddRemote(repo), AddRemote(repo, remoteURL),
                 "Fresh_PushWithUpstream")

\* executeFreshInit undoing the setup when the first push fails.
FreshPushWithUpstream_Rollback ==
    /\ pc = "Fresh_PushWithUpstream"
    /\ UNCHANGED <<remoteURL, pullErr, path, start, runs>>
    /\ \E ok \in BOOLEAN :
          /\ ok => CanPushWithUpstream(repo, remoteHist)
          /\ Log(<<Call("PushWithUpstream", "", "", ok)>>)
          /\ IF ok
             THEN /\ repo' = PushWithUpstream(repo)
                  /\ remoteHist' = Pushed(repo, remoteHist)
                  /\ Return("nil")
             ELSE /\ repo' = start
                  /\ remoteHist' = remoteHist
                  /\ Return("PushWithUpstream")

\* executeFreshInit, lines 421-446.
FreshPushWithUpstream ==
    /\ pc = "Fresh_PushWithUpstream"
    /\ UNCHANGED <<remoteURL, pullErr, path, start, runs>>
    /\ SpunStep("PushWithUpstream", "", CanPushWithUpstream(repo, remoteHist),
                PushWithUpstream(repo), Pushed(repo, remoteHist), "done")

\* executeReplaceWithRemote that calls runCloneFlow without the URL.
ExecuteReplaceWithRemote_Reprompt ==
    /\ pc = "Replace"
    /\ UNCHANGED <<remoteHist, remoteURL, pullErr, path, start, runs>>
    /\ PlainStep("RemoveClaudeDir", "", repo.dirExists, RemoveClaudeDir(repo), "CloneInput")

\* executeReplaceWithRemote, lines 450-460: remove the directory, then
\* runCloneFlow with the URL already collected.
ExecuteReplaceWithRemote ==
    /\ pc = "Replace"
    /\ UNCHANGED <<remoteHist, remoteURL, pullErr, path, start, runs>>
    /\ PlainStep("RemoveClaudeDir", "", repo.dirExists, RemoveClaudeDir(repo),
                 IF remoteURL = "" THEN "CloneInput" ELSE "CloneRepo")

\* executeMergeHistories, lines 464-470.
MergeInitRepo ==
    /\ pc = "Merge_InitRepo"
    /\ UNCHANGED <<remoteHist, remoteURL, pullErr, path, start, runs>>
    /\ PlainStep("InitRepo", "", CanInitRepo(repo), InitRepo(repo), "Merge_SetupGitignore")

\* executeMergeHistories, lines 472-479.
MergeSetupGitignore ==
    /\ pc = "Merge_SetupGitignore"
    /\ UNCHANGED <<remoteHist, remoteURL, pullErr, path, start, runs>>
    /\ PlainStep("SetupGitignore", "", CanSetupGitignore(repo), SetupGitignore(repo),
                 "Merge_InitialCommit")

\* executeMergeHistories, lines 481-487.
MergeInitialCommit ==
    /\ pc = "Merge_InitialCommit"
    /\ UNCHANGED <<remoteHist, remoteURL, pullErr, path, start, runs>>
    /\ InitialCommitStep("Merge_AddRemote")

\* executeMergeHistories, lines 489-495.
MergeAddRemote ==
    /\ pc = "Merge_AddRemote"
    /\ UNCHANGED <<remoteHist, remoteURL, pullErr, path, start, runs>>
    /\ PlainStep("AddRemote", remoteURL, CanAddRemote(repo), AddRemote(repo, remoteURL),
                 "Merge_Fetch")

\* executeMergeHistories pushing right after the fetch, without the merge.
MergeFetch_SkipPull ==
    /\ pc = "Merge_Fetch"
    /\ UNCHANGED <<remoteURL, pullErr, path, start, runs>>
    /\ SpunStep("Fetch", "", CanFetch(repo), Fetch(repo), remoteHist, "Merge_PushWithUpstream")

\* executeMergeHistories, lines 497-505.
MergeFetch ==
    /\ pc = "Merge_Fetch"
    /\ UNCHANGED <<remoteURL, pullErr, path, start, runs>>
    /\ SpunStep("Fetch", "", CanFetch(repo), Fetch(repo), remoteHist, "Merge_Pull")

\* executeMergeHistories, lines 507-519.
MergePull ==
    /\ pc = "Merge_Pull"
    /\ UNCHANGED <<remoteURL, pullErr, path, start, runs>>
    /\ SpunStep("PullAllowUnrelatedHistories", "",
                CanPullAllowUnrelatedHistories(repo, remoteHist),
                PullAllowUnrelatedHistories(repo, remoteHist), remoteHist,
                "Merge_PushWithUpstream")

\* executeMergeHistories, lines 521-537.
MergePushWithUpstream ==
    /\ pc = "Merge_PushWithUpstream"
    /\ UNCHANGED <<remoteURL, pullErr, path, start, runs>>
    /\ SpunStep("PushWithUpstream", "", CanPushWithUpstream(repo, remoteHist),
                PushWithUpstream(repo), Pushed(repo, remoteHist), "done")

\* commitLocalChanges going on to the pull although the commit failed.
CommitLocalChanges_IgnoreCommitError ==
    /\ pc = "CommitLocalChanges"
    /\ UNCHANGED <<remoteHist, remoteURL, pullErr, path, start, runs>>
    /\ \E queryErr \in BOOLEAN, ok \in BOOLEAN :
          IF queryErr
          THEN /\ Log(<<Call("GetChangedFiles", "", "", FALSE)>>)
               /\ repo' = repo
               /\ Return("GetChangedFiles")
          ELSE IF ~HasChangedFiles(repo)
          THEN /\ Log(<<Call("GetChangedFiles", "", "none", TRUE)>>)
               /\ repo' = repo
               /\ Goto("Pull")
          ELSE /\ ok => CanCommitChanges(repo)
               /\ Log(<<Call("GetChangedFiles", "", "some", TRUE),
                       Call("CommitChanges", "", "", ok)>>)
               /\ repo' = IF ok THEN CommitChanges(repo) ELSE repo
               /\ Goto("Pull")

\* commitLocalChanges with a run that has nothing to commit ending at once,
\* without pull and push.
CommitLocalChanges_StopWhenClean ==
    /\ pc = "CommitLocalChanges"
    /\ UNCHANGED <<remoteHist, remoteURL, pullErr, path, start, runs>>
    /\ \E queryErr \in BOOLEAN, ok \in BOOLEAN :
          IF queryErr
          THEN /\ Log(<<Call("GetChangedFiles", "", "", FALSE)>>)
               /\ repo' = repo
               /\ Return("GetChangedFiles")
          ELSE IF ~HasChangedFiles(repo)
          THEN /\ Log(<<Call("GetChangedFiles", "", "none", TRUE)>>)
               /\ repo' = repo
               /\ Return("nil")
          ELSE /\ ok => CanCommitChanges(repo)
               /\ Log(<<Call("GetChangedFiles", "", "some", TRUE),
                       Call("CommitChanges", "", "", ok)>>)
               /\ IF ok
                  THEN repo' = CommitChanges(repo) /\ Goto("Pull")
                  ELSE repo' = repo /\ Return("CommitChanges")

\* commitLocalChanges, lines 81-110.
CommitLocalChanges ==
    /\ pc = "CommitLocalChanges"
    /\ UNCHANGED <<remoteHist, remoteURL, pullErr, path, start, runs>>
    /\ \E queryErr \in BOOLEAN, ok \in BOOLEAN :
          IF queryErr
          THEN /\ Log(<<Call("GetChangedFiles", "", "", FALSE)>>)
               /\ repo' = repo
               /\ Return("GetChangedFiles")
          ELSE IF ~HasChangedFiles(repo)
          THEN /\ Log(<<Call("GetChangedFiles", "", "none", TRUE)>>)
               /\ repo' = repo
               /\ Goto("Pull")
          ELSE /\ ok => CanCommitChanges(repo)
               /\ Log(<<Call("GetChangedFiles", "", "some", TRUE),
                       Call("CommitChanges", "", "", ok)>>)
               /\ IF ok
                  THEN repo' = CommitChanges(repo) /\ Goto("Pull")
                  ELSE repo' = repo /\ Return("CommitChanges")

\* pullWithRebaseAndHandleConflicts, lines 113-125.  pullErr is assigned
\* inside the task only; the branch is taken on SpinWhile's own return.
PullWithRebaseAndHandleConflicts ==
    /\ pc = "Pull"
    /\ UNCHANGED <<remoteHist, remoteURL, path, start, runs>>
    /\ \E mode \in SpinModes, outcome \in {"ok", "fail", "conflict"},
          h \in PullHeads(repo, remoteHist) :
          IF mode = "wrapperErr"
          THEN /\ Log(<<Call("SpinWhile", "", "", FALSE)>>)
               /\ repo' = repo
               /\ pullErr' = "nil"
               /\ Goto("HandlePullError")
          ELSE /\ outcome = "ok" => CanPullWithRebase(repo)
               /\ outcome = "conflict" => CanPullConflict(repo, remoteHist)
               /\ Log(<<Call("PullWithRebase", "", outcome, outcome = "ok")>>)
               /\ CASE outcome = "ok" ->
                         /\ repo' = PullWithRebase(repo, remoteHist, h)
                         /\ pullErr' = "nil"
                         /\ Goto("Push")
                    [] outcome = "fail" ->
                         /\ repo' = repo
                         /\ pullErr' = "PullWithRebase"
                         /\ Goto("HandlePullError")
                    [] outcome = "conflict" ->
                         /\ repo' = PullConflict(repo)
                         /\ pullErr' = "PullWithRebase"
                         /\ Goto("HandlePullError")

\* handlePullError that takes an error of the conflict probe for a conflict.
HandlePullError_ProbeErrorAborts ==
    /\ pc = "HandlePullError"
    /\ UNCHANGED <<remoteHist, remoteURL, pullErr, path, start, runs>>
    /\ \E probeErr \in BOOLEAN, abortOk \in BOOLEAN :
          IF ~probeErr /\ ~HasConflicts(repo)
          THEN /\ Log(<<Call("HasConflicts", "", "false", TRUE)>>)
               /\ repo' = repo
               /\ IF pullErr = "nil" THEN Goto("Push") ELSE Return(pullErr)
          ELSE /\ abortOk => CanAbortRebase(repo)
               /\ Log(<<Call("HasConflicts", "", IF probeErr THEN "" ELSE "true", ~probeErr),
                       Call("AbortRebase", "", "", abortOk)>>)
               /\ repo' = IF abortOk THEN AbortRebase(repo) ELSE repo
               /\ Return(ConflictError)

\* handlePullError with a failure of AbortRebase propagated as Run's error
\* instead of being logged as a warning.
HandlePullError_AbortFatal ==
    /\ pc = "HandlePullError"
    /\ UNCHANGED <<remoteHist, remoteURL, pullErr, path, start, runs>>
    /\ \E probeErr \in BOOLEAN, abortOk \in BOOLEAN :
          IF probeErr \/ ~HasConflicts(repo)
          THEN /\ Log(<<Call("HasConflicts", "", IF probeErr THEN "" ELSE "false", ~probeErr)>>)
               /\ repo' = repo
               /\ IF pullErr = "nil" THEN Goto("Push") ELSE Return(pullErr)
          ELSE /\ abortOk => CanAbortRebase(repo)
               /\ Log(<<Call("HasConflicts", "", "true", TRUE),
                       Call("AbortRebase", "", "", abortOk)>>)
               /\ repo' = IF abortOk THEN AbortRebase(repo) ELSE repo
               /\ Return(IF abortOk THEN ConflictError ELSE "AbortRebase")

\* handlePullError that lets the run go on when no conflict is found.
HandlePullError_SwallowPullError ==
    /\ pc = "HandlePullError"
    /\ UNCHANGED <<remoteHist, remoteURL, pullErr, path, start, runs>>
    /\ \E probeErr \in BOOLEAN, abortOk \in BOOLEAN :
          IF probeErr \/ ~HasConflicts(repo)
          THEN /\ Log(<<Call("HasConflicts", "", IF probeErr THEN "" ELSE "false", ~probeErr)>>)
               /\ repo' = repo
               /\ Goto("Push")
          ELSE /\ abortOk => CanAbortRebase(repo)
               /\ Log(<<Call("HasConflicts", "", "true", TRUE),
                       Call("AbortRebase", "", "", abortOk)>>)
               /\ repo' = IF abortOk THEN AbortRebase(repo) ELSE repo
               /\ Return(ConflictError)

\* handlePullError that reports the conflict without calling AbortRebase.
HandlePullError_SkipAbort ==
    /\ pc = "HandlePullError"
    /\ UNCHANGED <<remoteHist, remoteURL, pullErr, path, start, runs>>
    /\ \E probeErr \in BOOLEAN :
          IF probeErr \/ ~HasConflicts(repo)
          THEN /\ Log(<<Call("HasConflicts", "", IF probeErr THEN "" ELSE "false", ~probeErr)>>)
               /\ repo' = repo
               /\ IF pullErr = "nil" THEN Goto("Push") ELSE Return(pullErr)
          ELSE /\ Log(<<Call("HasConflicts", "", "true", TRUE)>>)
               /\ repo' = repo
               /\ Return(ConflictError)

\* handlePullError, lines 128-152.  `return pullErr` hands Run the captured
\* value: when it is nil, Run goes on to pushToRemote.
HandlePullError ==
    /\ pc = "HandlePullError"
    /\ UNCHANGED <<remoteHist, remoteURL, pullErr, path, start, runs>>
    /\ \E probeErr \in BOOLEAN, abortOk \in BOOLEAN :
          IF probeErr \/ ~HasConflicts(repo)
          THEN /\ Log(<<Call("HasConflicts", "", IF probeErr THEN "" ELSE "false", ~probeErr)>>)
               /\ repo' = repo
               /\ IF pullErr = "nil" THEN Goto("Push") ELSE Return(pullErr)
          ELSE /\ abortOk => CanAbortRebase(repo)
               /\ Log(<<Call("HasConflicts", "", "true", TRUE),
                       Call("AbortRebase", "", "", abortOk)>>)
               /\ repo' = IF abortOk THEN AbortRebase(repo) ELSE repo
               /\ Return(ConflictError)

\* pushToRemote that logs a failed push and lets Run go on.
PushToRemote_SwallowError ==
    /\ pc = "Push"
    /\ UNCHANGED <<remoteURL, pullErr, path, start, runs>>
    /\ \E ok \in BOOLEAN :
          /\ ok => CanPush(repo, remoteHist)
          /\ Log(<<Call("Push", "", "", ok)>>)
          /\ repo' = repo
          /\ remoteHist' = IF ok THEN Pushed(repo, remoteHist) ELSE remoteHist
          /\ Goto("ShowRecentActivity")

\* pushToRemote trying the push a second time after a failure.
PushToRemote_Retry ==
    /\ pc = "Push"
    /\ UNCHANGED <<remoteURL, pullErr, path, start, runs>>
    /\ \E ok \in BOOLEAN, again \in BOOLEAN :
          /\ ok => CanPush(repo, remoteHist)
          /\ again => CanPush(repo, remoteHist)
          /\ repo' = repo
          /\ IF ok
             THEN /\ Log(<<Call("Push", "", "", TRUE)>>)
                  /\ remoteHist' = Pushed(repo, remoteHist)
                  /\ Goto("ShowRecentActivity")
             ELSE /\ Log(<<Call("Push", "", "", FALSE), Call("Push", "", "", again)>>)
                  /\ IF again
                     THEN remoteHist' = Pushed(repo, remoteHist) /\ Goto("ShowRecentActivity")
                     ELSE remoteHist' = remoteHist /\ Return("Push")

\* pushToRemote, lines 154-166.
PushToRemote ==
    /\ pc = "Push"
    /\ UNCHANGED <<remoteURL, pullErr, path, start, runs>>
    /\ SpunStep("Push", "", CanPush(repo, remoteHist), repo, Pushed(repo, remoteHist),
                "ShowRecentActivity")

\* showRecentActivity, lines 169-180, and the end of Run, lines 72-77: an
\* error of GetRecentCommits only skips the box.  The value logged is the
\* newest entry of the list it returned ("" for an empty list).
ShowRecentActivity ==
    /\ pc = "ShowRecentActivity"
    /\ UNCHANGED <<repo, remoteHist, remoteURL, pullErr, path, start, runs>>
    /\ \E ok \in BOOLEAN :
          /\ Log(<<Call("GetRecentCommits", "", IF ok THEN repo.head ELSE "", ok)>>)
          /\ Return("nil")

Next ==
    \/ Discover
    \/ FirstTimeChoice
    \/ FirstTimeCreateDir
    \/ CloneInput
    \/ CloneFlow
    \/ InitPrompt
    \/ InitInput
    \/ InitValidate
    \/ HandleRemoteState
    \/ HandleRemoteWithCommits
    \/ FreshInitRepo
    \/ FreshSetupGitignore
    \/ FreshInitialCommit
    \/ FreshAddRemote
    \/ FreshPushWithUpstream
    \/ ExecuteReplaceWithRemote
    \/ MergeInitRepo
    \/ MergeSetupGitignore
    \/ MergeInitialCommit
    \/ MergeAddRemote
    \/ MergeFetch
    \/ MergePull
    \/ MergePushWithUpstream
    \/ CommitLocalChanges
    \/ PullWithRebaseAndHandleConflicts
    \/ HandlePullError
    \/ PushToRemote
    \/ ShowRecentActivity

Spec == Init /\ [][Next]_vars

\* A run in progress takes its next step: Run is synchronous, and every
\* collaborator call it is blocked in returns.  Starting a run is up to the
\* user and is not required to happen.
RunStep == Next /\ runs' = runs

SpecLive == Init /\ [][Next]_vars /\ WF_vars(RunStep)

-----------------------------------------------------------------------------
(* Failures of the git commands, as the facade reports them                *)

\* The state of Service.Run while only the facade is exercised.
ServiceIdle ==
    /\ repo = NoDir
    /\ remoteHist = [u \in URLs |-> {}]
    /\ pc = "idle"
    /\ calls = <<>>
    /\ result = "running"
    /\ remoteURL = ""
    /\ pullErr = "nil"
    /\ path = "none"
    /\ start = NoDir
    /\ logged = "none"
    /\ runs = 0

InitClassifier ==
    /\ ServiceIdle
    /\ PromptsIdle
    /\ output \in Outputs
    /\ cause \in ExecErrors
    /\ verdict = [op \in ClassifiedOps |-> NoError]
    /\ WorkTreeIdle
    /\ InvocationsIdle

\* The git command of Push, PushWithUpstream, PullWithRebase or CloneRepo
\* fails with the captured output; the facade returns the error built
\* from it.
Fails ==
    /\ \E op \in ClassifiedOps :
          /\ verdict[op] = NoError
          /\ verdict' = [verdict EXCEPT ![op] = FailureOf(op, cause, output)]
    /\ UNCHANGED <<output, cause, serviceVars, promptVars, treeVars, invVars>>

NextClassifier == Fails

SpecClassifier == InitClassifier /\ [][NextClassifier]_vars

-----------------------------------------------------------------------------
(* The change probe, the commit and the sync command on a working tree     *)

InitWorkTree ==
    /\ ServiceIdle
    /\ PromptsIdle
    /\ ClassifierIdle
    /\ tree \in Trees
    /\ probe = NoProbe
    /\ committed = NoCommit
    /\ cmdPc = "idle"
    /\ cmdCalls = <<>>
    /\ InvocationsIdle

\* The user edits a tracked file.
ModifyTracked ==
    /\ \E f \in Tracked :
          /\ tree.files[f] = "clean"
          /\ tree' = [tree EXCEPT !.files[f] = "modified"]
    /\ UNCHANGED <<probe, committed, cmdPc, cmdCalls, serviceVars, promptVars, classifierVars, invVars>>

\* The user removes a tracked file from the working tree.
DeleteTracked ==
    /\ \E f \in Tracked :
          /\ tree.files[f] \in {"clean", "modified"}
          /\ tree' = [tree EXCEPT !.files[f] = "deleted"]
    /\ UNCHANGED <<probe, committed, cmdPc, cmdCalls, serviceVars, promptVars, classifierVars, invVars>>

\* The user creates a file git does not track.
CreateUntracked ==
    /\ \E n \in NewFiles :
          /\ n \notin tree.untracked
          /\ tree' = [tree EXCEPT !.untracked = @ \cup {n}]
    /\ UNCHANGED <<probe, committed, cmdPc, cmdCalls, serviceVars, promptVars, classifierVars, invVars>>

\* What a HasUncommittedChanges call leaves in probe: the outcome of the
\* subprocess, the returned pair, and the tree the call looked at.
ProbeOf(run, t) ==
    [run |-> run,
     changes |-> HasUncommittedChanges(run).changes,
     err |-> HasUncommittedChanges(run).err,
     changed |-> Changed(t),
     untracked |-> t.untracked]

\* What a CommitChanges call leaves in committed.
CommitOf(message, err, t) == [message |-> message, err |-> err, untracked |-> t.untracked]

\* HasUncommittedChanges(ctx, repoPath), lines 51-66
ProbeChanges ==
    /\ \E run \in DiffIndexRuns(tree) : probe' = ProbeOf(run, tree)
    /\ UNCHANGED <<tree, committed, cmdPc, cmdCalls, serviceVars, promptVars, classifierVars, invVars>>

\* CommitChanges(ctx, repoPath, message), lines 83-96
CommitStep ==
    /\ \E message \in Messages, addOk \in BOOLEAN, commitOk \in BOOLEAN :
          LET c == CommitChangesOn(tree, message, addOk, commitOk)
          IN  /\ tree' = c.tree
              /\ committed' = CommitOf(message, c.err, tree)
    /\ UNCHANGED <<probe, cmdPc, cmdCalls, serviceVars, promptVars, classifierVars, invVars>>

\* One record of the sync command's calls: the operation and its error.
CmdCall(op, err) == [op |-> op, err |-> err]

\* runSync, src/cmd/sync.go lines 34-47: GetClaudeDir and IsGitRepo succeed
\* on a directory that holds a repository.
RunSync ==
    /\ cmdPc = "idle"
    /\ cmdPc' = "commitLocalChanges"
    /\ cmdCalls' = <<CmdCall("GetClaudeDir", "nil")>>
    /\ UNCHANGED <<tree, probe, committed, serviceVars, promptVars, classifierVars, invVars>>

\* commitLocalChanges, src/cmd/sync.go lines 73-110
CmdCommitLocalChanges ==
    /\ cmdPc = "commitLocalChanges"
    /\ UNCHANGED <<serviceVars, promptVars, classifierVars, invVars>>
    /\ \E run \in DiffIndexRuns(tree), filesOk \in BOOLEAN, message \in Messages,
          addOk \in BOOLEAN, commitOk \in BOOLEAN :
          LET has == HasUncommittedChanges(run)
              c == CommitChangesOn(tree, message, addOk, commitOk)
          IN  /\ probe' = ProbeOf(run, tree)
              /\ IF has.err # "nil"
                 THEN /\ cmdCalls' = cmdCalls \o <<CmdCall("HasUncommittedChanges", has.err)>>
                      /\ cmdPc' = "done"
                      /\ UNCHANGED <<tree, committed>>
                 ELSE IF ~has.changes
                 THEN /\ cmdCalls' = cmdCalls \o <<CmdCall("HasUncommittedChanges", "nil")>>
                      /\ cmdPc' = "pull"
                      /\ UNCHANGED <<tree, committed>>
                 ELSE IF ~filesOk
                 THEN /\ cmdCalls' = cmdCalls \o <<CmdCall("HasUncommittedChanges", "nil"),
                                                   CmdCall("GetChangedFiles", "diff")>>
                      /\ cmdPc' = "done"
                      /\ UNCHANGED <<tree, committed>>
                 ELSE /\ cmdCalls' = cmdCalls \o <<CmdCall("HasUncommittedChanges", "nil"),
                                                   CmdCall("GetChangedFiles", "nil"),
                                                   CmdCall("CommitChanges", c.err)>>
                      /\ tree' = c.tree
                      /\ committed' = CommitOf(message, c.err, tree)
                      /\ cmdPc' = IF c.err = "nil" THEN "pull" ELSE "done"

\* pullWithRebaseAndHandleConflicts and handlePullError, src/cmd/sync.go
\* lines 112-150: a failed pull ends the command, after the conflict check
\* and, on a conflict, the rebase abort.
CmdPull ==
    /\ cmdPc = "pull"
    /\ UNCHANGED <<tree, probe, committed, serviceVars, promptVars, classifierVars, invVars>>
    /\ \E pullOk \in BOOLEAN, conflict \in {"nil", "true", "err"}, abortOk \in BOOLEAN :
          IF pullOk
          THEN /\ cmdCalls' = cmdCalls \o <<CmdCall("PullWithRebase", "nil")>>
               /\ cmdPc' = "push"
          ELSE /\ cmdPc' = "done"
               /\ cmdCalls' = cmdCalls \o
                    <<CmdCall("PullWithRebase", "pull"),
                      CmdCall("HasConflicts", IF conflict = "err" THEN "status" ELSE "nil")>>
                    \o (IF conflict = "true"
                        THEN <<CmdCall("AbortRebase", IF abortOk THEN "nil" ELSE "abort")>>
                        ELSE <<>>)

\* pushToRemote and showRecentActivity, src/cmd/sync.go lines 154-178
CmdPush ==
    /\ cmdPc = "push"
    /\ UNCHANGED <<tree, probe, committed, serviceVars, promptVars, classifierVars, invVars>>
    /\ cmdPc' = "done"
    /\ \E pushOk \in BOOLEAN, logOk \in BOOLEAN :
          IF pushOk
          THEN cmdCalls' = cmdCalls \o
                  <<CmdCall("Push", "nil"),
                    CmdCall("GetRecentCommits", IF logOk THEN "nil" ELSE "log")>>
          ELSE cmdCalls' = cmdCalls \o <<CmdCall("Push", "push")>>

NextWorkTree ==
    \/ ModifyTracked
    \/ DeleteTracked
    \/ CreateUntracked
    \/ ProbeChanges
    \/ CommitStep
    \/ RunSync
    \/ CmdCommitLocalChanges
    \/ CmdPull
    \/ CmdPush

SpecWorkTree == InitWorkTree /\ [][NextWorkTree]_vars

-----------------------------------------------------------------------------
(* Runs of the tool as processes: probes, subprocesses and cancellation    *)

InitInvocations ==
    /\ ServiceIdle
    /\ PromptsIdle
    /\ ClassifierIdle
    /\ WorkTreeIdle
    /\ inv = [p \in Procs |-> IdleInv]
    /\ fs \in FsStates
    /\ serial \in BOOLEAN

\* The invocation is between its start and its end.
Active(p) == inv[p].state \in {"discover", "running"}

\* A caller that starts every invocation whether or not another one runs.
CallerMayStart_Always(p) == TRUE

\* The package documentation, lines 1-14: the facade is not thread-safe and
\* "callers must ensure" that operations on a repository path do not
\* overlap.  A caller that does so starts an invocation only when no other
\* one is active; the tool itself takes no lock.
CallerMayStart(p) == serial => \A q \in Procs \ {p} : ~Active(q)

\* The step the invocation is at.
CurrentStep(p) == Plan(inv[p].plan)[inv[p].step]

\* The effect of a successful step on the directory.
Effect(op, f) ==
    CASE op = "CreateClaudeDir" -> [f EXCEPT !.dirStat = "dir"]
      [] op = "InitRepo"        -> [f EXCEPT !.gitStat = "dir"]
      [] OTHER                  -> f

\* The step returned: the run goes on to the next step, or returns nil after
\* the last one, or returns the step's error.  late: the step was started
\* after the run was cancelled.
StepReturns(p, ok, late) ==
    LET s == CurrentStep(p)
        last == inv[p].step = Len(Plan(inv[p].plan))
        lateMod == inv[p].lateMod \/ (ok /\ late /\ s.modifies)
    IN  /\ fs' = IF ok THEN Effect(s.op, fs) ELSE fs
        /\ IF ~ok /\ s.fatal
           THEN inv' = [inv EXCEPT ![p].state = "ended", ![p].result = s.op,
                                   ![p].sub = "none"]
           ELSE IF last
           THEN inv' = [inv EXCEPT ![p].state = "ended", ![p].result = "nil",
                                   ![p].sub = "none", ![p].lateMod = lateMod]
           ELSE inv' = [inv EXCEPT ![p].step = @ + 1, ![p].sub = "none",
                                   ![p].lateMod = lateMod]

\* The user runs a command of the tool.
Invoke ==
    /\ \E p \in Procs, c \in Commands :
          /\ inv[p].state = "idle"
          /\ CallerMayStart(p)
          /\ inv' = [inv EXCEPT ![p].state = "discover", ![p].cmd = c]
    /\ UNCHANGED <<fs, serial, serviceVars, promptVars, classifierVars, treeVars>>

\* Run, lines 27-57, and runStatus, src/cmd/status.go lines 30-47: the
\* directory probes and the choice of what to run.
Probe ==
    /\ \E p \in Procs :
          /\ inv[p].state = "discover"
          /\ LET e == ClaudeDirExists(fs)
                 probed == [inv EXCEPT ![p].seen = fs, ![p].exists = e.exists,
                                     ![p].isRepo = IsGitRepoOn(fs)]
                 ended(err) == [probed EXCEPT ![p].state = "ended", ![p].result = err]
                 starts(plan) == [probed EXCEPT ![p].state = "running", ![p].plan = plan,
                                            ![p].step = 1]
             IN  IF inv[p].cmd = "sync"
                 THEN IF e.err # "nil" THEN inv' = ended("ClaudeDirExists")
                      ELSE IF ~e.exists
                      THEN IF ClaudeDirPath(fs) # "nil" THEN inv' = ended("ClaudeDirPath")
                           ELSE inv' = starts("firstSetup")
                      ELSE IF GetClaudeDir(fs) # "nil" THEN inv' = ended("GetClaudeDir")
                      ELSE IF ~IsGitRepoOn(fs) THEN inv' = starts("setup")
                      ELSE inv' = starts("sync")
                 ELSE IF GetClaudeDir(fs) # "nil" THEN inv' = ended("GetClaudeDir")
                      ELSE IF ~IsGitRepoOn(fs) THEN inv' = ended("not a git repository")
                      ELSE inv' = starts("status")
    /\ UNCHANGED <<fs, serial, serviceVars, promptVars, classifierVars, treeVars>>

\* The run reaches its next step.  A filesystem step is carried out at
\* once, whatever the context; exec.CommandContext does not start a command
\* once the context is done; otherwise the subprocess is started and the
\* run waits for it.
StartStep ==
    /\ \E p \in Procs :
          /\ inv[p].state = "running"
          /\ inv[p].sub = "none"
          /\ LET s == CurrentStep(p)
             IN  IF s.via = "fs"
                 THEN \E ok \in BOOLEAN : StepReturns(p, ok, inv[p].cancelled)
                 ELSE IF s.via = "CommandContext" /\ inv[p].cancelled
                 THEN StepReturns(p, FALSE, TRUE)
                 ELSE /\ inv' = [inv EXCEPT ![p].sub = "running",
                                            ![p].late = inv[p].cancelled]
                      /\ fs' = fs
    /\ UNCHANGED <<serial, serviceVars, promptVars, classifierVars, treeVars>>

\* The subprocess exits by itself, with or without success.
SubprocessExits ==
    /\ \E p \in Procs, ok \in BOOLEAN :
          /\ inv[p].sub = "running"
          /\ StepReturns(p, ok, inv[p].late)
    /\ UNCHANGED <<serial, serviceVars, promptVars, classifierVars, treeVars>>

\* The run's context is cancelled.
Cancel ==
    /\ \E p \in Procs :
          /\ Active(p)
          /\ ~inv[p].cancelled
          /\ inv' = [inv EXCEPT ![p].cancelled = TRUE]
    /\ UNCHANGED <<fs, serial, serviceVars, promptVars, classifierVars, treeVars>>

\* exec.CommandContext kills the subprocess when the context is done; the
\* operation returns an error.
KillOnCancel ==
    /\ \E p \in Procs :
          /\ inv[p].sub = "running"
          /\ inv[p].cancelled
          /\ CurrentStep(p).via = "CommandContext"
          /\ StepReturns(p, FALSE, inv[p].late)
    /\ UNCHANGED <<serial, serviceVars, promptVars, classifierVars, treeVars>>

NextInvocations ==
    \/ Invoke
    \/ Probe
    \/ StartStep
    \/ SubprocessExits
    \/ Cancel
    \/ KillOnCancel

SpecInvocations == InitInvocations /\ [][NextInvocations]_vars

-----------------------------------------------------------------------------
(* One prompt at the terminal                                              *)

\* Confirm(prompt) or Input(prompt, placeholder) has just started its program.
InitPrompts ==
    /\ ServiceIdle
    /\ ClassifierIdle
    /\ WorkTreeIdle
    /\ InvocationsIdle
    /\ model \in {NewModel("confirm"), NewModel("input")}
    /\ keys = <<>>
    /\ answer = NoAnswer

\* The program delivers a key message to the model's Update; after tea.Quit
\* no further message is delivered.
PressKey ==
    /\ ~model.done
    /\ answer = NoAnswer
    /\ Len(keys) < MaxKeys
    /\ \E key \in Keys :
          /\ keys' = Append(keys, key)
          /\ model' = IF model.kind = "confirm"
                      THEN confirmModel_Update(model, key)
                      ELSE inputModel_Update(model, key)
    /\ UNCHANGED <<answer, serviceVars, classifierVars, treeVars, invVars>>

\* p.Run() returns: the final model after tea.Quit, or an error.
ProgramReturns ==
    /\ answer = NoAnswer
    /\ \E runErr \in BOOLEAN :
          /\ ~runErr => model.done
          /\ answer' = IF model.kind = "confirm"
                       THEN Confirm(model, runErr)
                       ELSE Input(model, runErr)
    /\ UNCHANGED <<model, keys, serviceVars, classifierVars, treeVars, invVars>>

NextPrompts ==
    \/ PressKey
    \/ ProgramReturns

SpecPrompts == InitPrompts /\ [][NextPrompts]_vars

-----------------------------------------------------------------------------
(* Properties of a run, stated over its calls log                          *)

\* Positions of the calls of an operation in the current run.
Ops(op) == {i \in 1..Len(calls) : calls[i].op = op}

Invoked(op) == Ops(op) # {}

\* The operation was invoked and returned without error.
Succeeded(op) == \E i \in Ops(op) : calls[i].ok

\* The operation was invoked and returned an error.
Failed(op) == \E i \in Ops(op) : ~calls[i].ok

\* The operation was invoked and returned the value v without error.
Returned(op, v) == \E i \in Ops(op) : calls[i].ok /\ calls[i].ret = v

Done == pc = "done"

\* C1: in a steady-state sync run, every call of Push comes after a call of
\* PullWithRebase of the same run that returned success.
C1_PushOnlyAfterSuccessfulPull ==
    path = "sync" =>
        \A i \in Ops("Push") :
            \E j \in Ops("PullWithRebase") : j < i /\ calls[j].ok

\* C2: when PullWithRebase failed and HasConflicts reported an unmerged
\* state, AbortRebase was invoked exactly once, Push was not invoked, and Run
\* returned the merge-conflict failure, whatever AbortRebase returned.
C2_ConflictAbortsOnce ==
    (Failed("PullWithRebase") /\ Returned("HasConflicts", "true")) =>
        /\ Cardinality(Ops("AbortRebase")) = 1
        /\ ~Invoked("Push")
        /\ Done /\ result = ConflictError

\* C2 witness: such a run ended although its AbortRebase failed.
C2_Witness ==
    /\ Done /\ result = ConflictError
    /\ Failed("PullWithRebase") /\ Returned("HasConflicts", "true")
    /\ Failed("AbortRebase")

\* A pull of the current run stopped on a conflict.
PullConflicted == \E i \in Ops("PullWithRebase") : calls[i].ret = "conflict"

C4_LocalOrRemoteContentKept ==
    (Done /\ path \in {"first", "init"}) =>
        \/ start.files \subseteq repo.files
        \/ Succeeded("CloneRepo") /\ "remote" \in repo.files

\* The prompts of the Prompter and the setup operations of the GitOperator.
Prompts ==
    {"Select:FirstTimeChoice", "Select:ConflictChoice", "Confirm", "Input:Init", "Input:Clone"}
SetupOps == {"InitRepo", "CloneRepo", "AddRemote", "RemoveClaudeDir", "CreateClaudeDir"}

\* The current run got past the directory probes of Run.
ProbesReturned == runs > 0 /\ Len(calls) >= 2 /\ calls[1].ok /\ calls[2].ok

\* The first collaborator call a run makes after the two directory probes.
FirstStep == IF Len(calls) > 2 THEN calls[3].op ELSE "none"

\* The path a directory state is to be dispatched to, and how each path begins.
DispatchOf(dirExists, isRepo) ==
    IF ~dirExists THEN "first" ELSE IF ~isRepo THEN "init" ELSE "sync"
BeginsWith(p) ==
    CASE p = "first" -> {"none", "Select:FirstTimeChoice"}
      [] p = "init"  -> {"none", "Confirm"}
      [] p = "sync"  -> {"none", "GetChangedFiles"}
      [] OTHER       -> {}

ModifyingOps ==
    {"InitRepo", "SetupGitignore", "InitialCommit", "AddRemote", "Fetch",
     "PullAllowUnrelatedHistories", "PushWithUpstream", "RemoveClaudeDir", "CloneRepo"}

\* The call that follows call k ("none" when k is the last one so far).
OpAfter(k) == IF Len(calls) > k THEN calls[k + 1].op ELSE "none"

\* C6: after a probe error or a 'no history' answer of RemoteHasCommits the
\* run proceeds to FreshInit and ConflictChoice is not shown; after a 'has
\* history' answer ConflictChoice is shown next, and no repository-modifying
\* operation is invoked before the user has selected.
C6_RemoteStateRouting ==
    \A k \in Ops("RemoteHasCommits") :
        IF calls[k].ok /\ calls[k].ret = "true"
        THEN /\ OpAfter(k) \in {"none", "Select:ConflictChoice"}
             /\ pc = "ConflictChoice" <=> OpAfter(k) = "none"
             /\ \A j \in 1..Len(calls) :
                   j <= k + 1 => calls[j].op \notin ModifyingOps
             /\ pc = "ConflictChoice" =>
                   repo.files = start.files /\ ~repo.isRepo /\ repo.hist = {}
        ELSE /\ ~Invoked("Select:ConflictChoice")
             /\ OpAfter(k) \in {"none", "InitRepo"}
             /\ pc = "Fresh_InitRepo" <=> OpAfter(k) = "none"

\* C6 witness: a probe error was followed by FreshInit's first step.
C6_Witness ==
    \E k \in Ops("RemoteHasCommits") : ~calls[k].ok /\ OpAfter(k) = "InitRepo"

\* The steps of executeFreshInit and of executeMergeHistories, in order.
FreshOps == <<"InitRepo", "SetupGitignore", "InitialCommit", "AddRemote", "PushWithUpstream">>
MergeOps ==
    <<"InitRepo", "SetupGitignore", "InitialCommit", "AddRemote", "Fetch",
      "PullAllowUnrelatedHistories", "PushWithUpstream">>

\* The calls of the current run made after call k.
CallsAfter(k) == SubSeq(calls, k + 1, Len(calls))

\* s follows the order exp: call i is step i of exp (or the spinner around it
\* failing on its own), and every call but the last returned without error.
InOrder(s, exp) ==
    /\ Len(s) <= Len(exp)
    /\ \A i \in 1..Len(s) :
          /\ s[i].op = exp[i] \/ (s[i].op = "SpinWhile" /\ ~s[i].ok)
          /\ i < Len(s) => s[i].ok

\* Every step of exp was invoked and returned without error.
AllSucceeded(s, exp) ==
    Len(s) = Len(exp) /\ \A i \in 1..Len(s) : s[i].op = exp[i] /\ s[i].ok

\* The calls after which Run enters FreshInit, resp. MergeFlow.
FreshStarts ==
    {k \in Ops("RemoteHasCommits") : ~calls[k].ok \/ calls[k].ret = "false"}
MergeStarts ==
    {k \in Ops("Select:ConflictChoice") : calls[k].ok /\ calls[k].ret = "merge"}

\* The URL the user entered at the URL prompt of InitPrompt.
EnteredURL == calls[CHOOSE i \in Ops("Input:Init") : TRUE].ret

\* C7: FreshInit invokes InitRepo, SetupGitignore, InitialCommit,
\* AddRemote(origin, entered URL), PushWithUpstream in exactly this order,
\* each only after the earlier ones succeeded; when all succeed Run returns
\* success and the remote has commits.
C7_FreshInitOrder ==
    \A k \in FreshStarts :
        LET s == CallsAfter(k) IN
        /\ InOrder(s, FreshOps)
        /\ \A i \in 1..Len(s) : s[i].op = "AddRemote" => s[i].arg = EnteredURL
        /\ Succeeded("AddRemote") => repo.origin = EnteredURL
        /\ AllSucceeded(s, FreshOps) =>
              /\ Done /\ result = "nil"
              /\ RemoteHasCommits(remoteHist, EnteredURL)
              /\ remoteHist[EnteredURL] = repo.hist

\* C7 witness: a FreshInit whose five steps all succeeded.
C7_Witness ==
    \E k \in FreshStarts : AllSucceeded(CallsAfter(k), FreshOps) /\ Done

\* C8: MergeFlow invokes InitRepo, SetupGitignore, InitialCommit, AddRemote,
\* Fetch, PullAllowUnrelatedHistories, PushWithUpstream in this order; when
\* all succeed both the local and the remote content are present and the
\* history holds at least two commits.
C8_MergeFlowOrder ==
    \A k \in MergeStarts :
        LET s == CallsAfter(k) IN
        /\ InOrder(s, MergeOps)
        /\ AllSucceeded(s, MergeOps) =>
              /\ Done /\ result = "nil"
              /\ start.files \subseteq repo.files
              /\ "remote" \in repo.files
              /\ Cardinality(repo.hist) >= 2
              /\ remoteHist[EnteredURL] = repo.hist

\* C8 witness: a MergeFlow over existing local content whose seven steps all
\* succeeded.
C8_Witness ==
    \E k \in MergeStarts :
        /\ AllSucceeded(CallsAfter(k), MergeOps) /\ Done
        /\ "local" \in start.files /\ "local" \in repo.files

\* What a succeeded step of FreshInit or MergeFlow leaves behind.
EffectRemains(c) ==
    CASE c.op = "InitRepo"       -> repo.dirExists /\ repo.isRepo
      [] c.op = "SetupGitignore" -> "gitignore" \in repo.files
      [] c.op = "InitialCommit"  -> "init" \in repo.hist
      [] c.op = "AddRemote"      -> repo.origin = c.arg
      [] c.op = "PullAllowUnrelatedHistories" ->
             "merge" \in repo.hist /\ "remote" \in repo.files
      [] OTHER -> TRUE

\* C9: when a step of FreshInit or MergeFlow fails, Run returns that step's
\* error and invokes no later step, and nothing is rolled back: the effects
\* of the steps that succeeded, and the local content, remain.
C9_FailureStopsWithoutRollback ==
    \A k \in FreshStarts \cup MergeStarts :
        LET s == CallsAfter(k) IN
        \A i \in 1..Len(s) :
            /\ ~s[i].ok =>
                  /\ i = Len(s)
                  /\ Done /\ result = s[i].op
                  /\ start.files \subseteq repo.files
            /\ s[i].ok => EffectRemains(s[i])

\* C9 witness: FreshInit's push failed after the four earlier steps succeeded.
C9_Witness ==
    \E k \in FreshStarts :
        LET s == CallsAfter(k) IN
        /\ Len(s) = Len(FreshOps) /\ s[Len(s)].op = "PushWithUpstream" /\ ~s[Len(s)].ok
        /\ Done /\ result = "PushWithUpstream"
        /\ repo.isRepo /\ repo.origin = EnteredURL /\ "init" \in repo.hist

\* The runs in which the user selected 'replace' at ConflictChoice.
ReplaceStarts ==
    {k \in Ops("Select:ConflictChoice") : calls[k].ok /\ calls[k].ret = "replace"}

\* C10: on 'replace', RemoveClaudeDir is invoked before CloneRepo, CloneRepo
\* receives the URL collected at InitPrompt without a second URL prompt, and
\* CloneRepo is not invoked when the removal fails; on success the previous
\* local content is gone and the remote content is present.
C10_ReplaceOrder ==
    \A k \in ReplaceStarts :
        LET s == CallsAfter(k) IN
        /\ InOrder(s, <<"RemoveClaudeDir", "CloneRepo">>)
        /\ ~Invoked("Input:Clone")
        /\ \A i \in Ops("CloneRepo") : calls[i].arg = EnteredURL
        /\ Failed("RemoveClaudeDir") =>
              ~Invoked("CloneRepo") /\ Done /\ result = "RemoveClaudeDir"
        /\ Succeeded("CloneRepo") =>
              /\ Done /\ result = "nil"
              /\ "local" \notin repo.files
              /\ "remote" \in repo.files
              /\ repo.hist = remoteHist[EnteredURL]

\* C10 witness: a replace over existing local content that succeeded.
C10_Witness ==
    /\ ReplaceStarts # {} /\ Succeeded("CloneRepo") /\ Done
    /\ "local" \in start.files /\ "remote" \in repo.files

\* The runs in which the directory was absent, the user selected 'clone' at
\* FirstTimeChoice and entered a non-empty URL.
CloneStarts ==
    {k \in Ops("Input:Clone") :
        /\ ~start.dirExists /\ Returned("Select:FirstTimeChoice", "clone")
        /\ calls[k].ok /\ calls[k].ret # ""}

\* The files a clone of the remote at url brings.
RemoteFiles(url) == IF remoteHist[url] # {} THEN {"remote"} ELSE {}

\* C11: when the directory is absent and the user selects 'clone' and enters
\* a non-empty URL, CloneRepo is the only modifying operation invoked; when
\* it succeeds Run returns success and the directory is a git repository
\* holding the remote's files, and when it fails Run returns the clone error.
C11_FirstTimeClone ==
    \A k \in CloneStarts :
        /\ \A i \in 1..Len(calls) :
              calls[i].op \notin (ModifyingOps \cup {"CreateClaudeDir"}) \ {"CloneRepo"}
        /\ \A i \in Ops("CloneRepo") : i = k + 1 /\ calls[i].arg = calls[k].ret
        /\ Succeeded("CloneRepo") =>
              /\ Done /\ result = "nil"
              /\ IsGitRepo(repo)
              /\ repo.files = RemoteFiles(calls[k].ret)
              /\ repo.hist = remoteHist[calls[k].ret]
        /\ Failed("CloneRepo") =>
              Done /\ result = "CloneRepo" /\ repo = start

\* C11 witness: a first-time clone of a remote with commits succeeded.
C11_Witness ==
    /\ CloneStarts # {} /\ Succeeded("CloneRepo") /\ Done
    /\ "remote" \in repo.files

\* C12: when PullWithRebase fails and the conflict probe detects no conflict,
\* Run returns the pull error itself, and neither AbortRebase nor Push is
\* invoked.
C12_PullFailureReportedAsIs ==
    (Failed("PullWithRebase") /\ Invoked("HasConflicts")
        /\ ~Returned("HasConflicts", "true")) =>
        /\ Done /\ result = "PullWithRebase"
        /\ ~Invoked("AbortRebase")
        /\ ~Invoked("Push")
        /\ calls[Len(calls)].op = "HasConflicts"

\* C12 witness: a run ended with the pull error after the probe answered
\* that nothing is unmerged.
C12_Witness ==
    /\ Done /\ result = "PullWithRebase"
    /\ Failed("PullWithRebase") /\ Returned("HasConflicts", "false")

\* C13 as claimed: in every run where the user declines the InitPrompt
\* confirmation Run returns success and the directory is as it was when the
\* run started, whichever path led to InitPrompt.
C13_Original ==
    Returned("Confirm", "no") => Done /\ result = "nil" /\ repo = start

\* C13 amended: in every run where the user declines the InitPrompt
\* confirmation Run returns success, the confirmation is the run's last
\* call, and no repository is initialised and no file written; the
\* directory is as it was when the run started, except that on the
\* first-time path the empty directory created before the prompt remains.
C13_DeclineChangesNothingMore ==
    Returned("Confirm", "no") =>
        /\ Done /\ result = "nil"
        /\ calls[Len(calls)].op = "Confirm"
        /\ \A i \in 1..Len(calls) : calls[i].op \notin ModifyingOps
        /\ repo = IF Succeeded("CreateClaudeDir") THEN CreateClaudeDir(start) ELSE start
        /\ Succeeded("CreateClaudeDir") <=> path = "first"

\* C13 witness: the user chose 'fresh' at FirstTimeChoice, the directory was
\* created, and InitPrompt was declined.
C13_Witness ==
    /\ Returned("Confirm", "no") /\ Done /\ path = "first"
    /\ ~start.dirExists /\ repo.dirExists

\* A selection prompt of the current run was cancelled or left empty.
SelectionCancelled ==
    \/ Returned("Select:FirstTimeChoice", "")
    \/ Returned("Select:ConflictChoice", "")
    \/ Returned("Select:ConflictChoice", "cancel")

\* C14 as claimed: a cancelled or empty selection at FirstTimeChoice or
\* ConflictChoice ends the run with success, without any repository- or
\* filesystem-modifying operation having been invoked in that run.
C14_Original ==
    SelectionCancelled =>
        /\ Done /\ result = "nil"
        /\ \A i \in 1..Len(calls) :
              calls[i].op \notin ModifyingOps \cup {"CreateClaudeDir"}

\* C14 amended: a cancelled or empty selection at FirstTimeChoice or
\* ConflictChoice ends the run with success; the selection is the run's last
\* call and no repository-modifying operation has been invoked; the only
\* filesystem-modifying operation the run can have invoked is the
\* CreateClaudeDir that precedes InitPrompt on the first-time path.
C14_CancelledSelectionEndsRun ==
    SelectionCancelled =>
        /\ Done /\ result = "nil"
        /\ calls[Len(calls)].op \in {"Select:FirstTimeChoice", "Select:ConflictChoice"}
        /\ \A i \in 1..Len(calls) : calls[i].op \notin ModifyingOps
        /\ Invoked("CreateClaudeDir") =>
              path = "first" /\ Returned("Select:FirstTimeChoice", "fresh")
        /\ repo = IF Succeeded("CreateClaudeDir") THEN CreateClaudeDir(start) ELSE start

\* C14 witness: ConflictChoice was cancelled in a run that had created the
\* directory.
C14_Witness ==
    /\ Returned("Select:ConflictChoice", "cancel") /\ Done
    /\ Succeeded("CreateClaudeDir")

\* The user cancelled at a confirmation or a selection, or left the URL
\* prompt of CloneFlow empty.
CancelledElsewhere ==
    \/ Returned("Confirm", "no")
    \/ SelectionCancelled
    \/ Returned("Input:Clone", "")

\* C15 as claimed: a cancellation at any prompt (declined confirmation, empty
\* selection, empty answer to any text prompt) is not an error: Run returns
\* success after an informational message.
C15_Original ==
    (CancelledElsewhere \/ Returned("Input:Init", "")) =>
        Done /\ result = "nil" /\ logged = "info"

\* C15 amended: a declined confirmation, an empty or cancelled selection and
\* an empty answer to CloneFlow's URL prompt are not errors: Run returns
\* success after an informational message; an empty answer to InitPrompt's
\* URL prompt ends the run with the failure "setup cancelled", reported as
\* an error.
C15_CancellationIsNoErrorButEmptyInitURL ==
    /\ CancelledElsewhere => Done /\ result = "nil" /\ logged = "info"
    /\ Returned("Input:Init", "") =>
          Done /\ result = "setup cancelled" /\ logged = "error"

\* C15 witness: the URL prompt of CloneFlow was left empty and the run ended.
C15_Witness ==
    Returned("Input:Clone", "") /\ Done /\ result = "nil" /\ logged = "info"

\* C16: at InitPrompt an empty remote URL ends the run with the failure
\* "setup cancelled" and neither ValidateRemote nor any repository-modifying
\* operation is invoked; a failure of ValidateRemote ends the run with a
\* failure and InitRepo is never invoked.
C16_EmptyOrUnreachableURL ==
    /\ Returned("Input:Init", "") =>
          /\ Done /\ result = "setup cancelled"
          /\ calls[Len(calls)].op = "Input:Init"
          /\ ~Invoked("ValidateRemote")
          /\ \A i \in 1..Len(calls) : calls[i].op \notin ModifyingOps
    /\ Failed("ValidateRemote") =>
          /\ Done /\ result = NotAccessible
          /\ calls[Len(calls)].op = "ValidateRemote"
          /\ ~Invoked("InitRepo")
          /\ \A i \in 1..Len(calls) : calls[i].op \notin ModifyingOps

\* C16 witness: ValidateRemote failed for an entered URL and the run ended.
C16_Witness ==
    /\ Failed("ValidateRemote") /\ Done /\ result = NotAccessible
    /\ \E i \in Ops("Input:Init") : calls[i].ret \in URLs

\* The branch the current run has entered: CloneFlow (from FirstTimeChoice
\* or from 'replace'), FreshInit, MergeFlow.
InCloneFlow == Returned("Select:FirstTimeChoice", "clone") \/ ReplaceStarts # {}
InFreshInit == FreshStarts # {}
InMergeFlow == MergeStarts # {}

\* The operations and the positions of Run that belong to each branch.
CloneFlowOps == {"RemoveClaudeDir", "Input:Clone", "CloneRepo"}
FlowOps == {"InitRepo", "SetupGitignore", "InitialCommit", "AddRemote", "Fetch",
            "PullAllowUnrelatedHistories", "PushWithUpstream"}
FreshPcs == {"Fresh_InitRepo", "Fresh_SetupGitignore", "Fresh_InitialCommit",
             "Fresh_AddRemote", "Fresh_PushWithUpstream"}
MergePcs == {"Merge_InitRepo", "Merge_SetupGitignore", "Merge_InitialCommit",
             "Merge_AddRemote", "Merge_Fetch", "Merge_Pull", "Merge_PushWithUpstream"}

\* C17: in any single run at most one of CloneFlow, FreshInit and MergeFlow
\* executes, so CloneRepo and InitRepo are never both invoked in one run.
C17_OneBranchPerRun ==
    /\ ~(InCloneFlow /\ InFreshInit)
    /\ ~(InCloneFlow /\ InMergeFlow)
    /\ ~(InFreshInit /\ InMergeFlow)
    /\ (pc \in {"Replace", "CloneInput", "CloneRepo"}
            \/ \E i \in 1..Len(calls) : calls[i].op \in CloneFlowOps) => InCloneFlow
    /\ pc \in FreshPcs => InFreshInit
    /\ pc \in MergePcs => InMergeFlow
    /\ (\E i \in 1..Len(calls) : calls[i].op \in FlowOps) => InFreshInit \/ InMergeFlow
    /\ ~(Invoked("CloneRepo") /\ Invoked("InitRepo"))

\* C17 witness: a run that replaced the local directory by a clone ended
\* without any step of FreshInit or MergeFlow.
C17_Witness ==
    /\ Done /\ InCloneFlow /\ Invoked("RemoveClaudeDir") /\ Invoked("CloneRepo")
    /\ ~Invoked("InitRepo")

\* The git facade operations Service invokes through GitOperator.
FacadeOps ==
    {"InitRepo", "CloneRepo", "InitialCommit", "AddRemote", "Fetch", "PullWithRebase",
     "PullAllowUnrelatedHistories", "Push", "PushWithUpstream", "CommitChanges",
     "AbortRebase", "ValidateRemote", "RemoteHasCommits", "SetupGitignore",
     "GetChangedFiles", "HasConflicts", "GetRecentCommits", "RemoveClaudeDir",
     "CreateClaudeDir"}

\* C18: no operation is retried: in any single run every git facade
\* operation is invoked at most once, whatever errors occur.
C18_NoRetry ==
    \A op \in FacadeOps : Cardinality(Ops(op)) <= 1

\* C18 witness: a run ended on a failed push that was tried once.
C18_Witness ==
    Done /\ Failed("Push") /\ Cardinality(Ops("Push")) = 1 /\ result = "Push"

\* The directory probes of Run, which go through GitOperator as well.
DirProbes == {"ClaudeDirExists", "ClaudeDirPath", "GetClaudeDir"}

\* The operations whose error Service deliberately does not return: the
\* best-effort AbortRebase, the RemoteHasCommits probe (an error counts as
\* 'no history'), GetRecentCommits (the activity box is skipped) and
\* HasConflicts (an error counts as 'no conflict').
ToleratedOps == {"AbortRebase", "RemoteHasCommits", "GetRecentCommits", "HasConflicts"}

\* C19 as claimed: when any git facade operation other than the best-effort
\* AbortRebase returns an error during a run, Run returns a non-nil error.
C19_Original ==
    (Done /\ \E i \in 1..Len(calls) :
                 calls[i].op \in (FacadeOps \cup DirProbes) \ {"AbortRebase"} /\ ~calls[i].ok)
        => result # "nil"

\* C19 amended: when a git facade operation other than AbortRebase,
\* RemoteHasCommits, GetRecentCommits and HasConflicts returns an error, Run
\* returns a non-nil error: the run ends at the failed operation, or, for a
\* failed PullWithRebase, after the conflict probe (and the AbortRebase it
\* may lead to) with the pull's error or the conflict error.
C19_FailuresReturnedExceptTolerated ==
    /\ \A i \in 1..Len(calls) :
          (/\ calls[i].op \in (FacadeOps \cup DirProbes) \ (ToleratedOps \cup {"PullWithRebase"})
           /\ ~calls[i].ok) =>
              /\ i = Len(calls)
              /\ Done /\ result \notin {"nil", "running"} /\ logged = "error"
    /\ Failed("PullWithRebase") =>
          \/ pc = "HandlePullError" /\ ~Invoked("HasConflicts")
          \/ Done /\ result \in {"PullWithRebase", ConflictError} /\ logged = "error"

\* C19 witness: a sync run ended with the error of a failed CommitChanges.
C19_Witness ==
    Done /\ Failed("CommitChanges") /\ result = "CommitChanges" /\ path = "sync"

\* The current run is a sync of an established repository that started with
\* a modified tracked file, and its pull and its push succeeded.
SyncedModifiedFile ==
    /\ path = "sync" /\ IsGitRepo(start) /\ start.dirty
    /\ Succeeded("PullWithRebase") /\ Succeeded("Push")

\* C20: for an established repository with a modified tracked file, when pull
\* and push succeed the sync run returns success, afterwards there are no
\* uncommitted changes and no changed files, and the newest entry of the
\* recent-activity list is the commit carrying the auto-generated message.
C20_SyncCommitsAndReports ==
    SyncedModifiedFile =>
        /\ pc \in {"ShowRecentActivity", "done"}
        /\ Done => result = "nil" /\ logged = "success"
        /\ Succeeded("CommitChanges")
        /\ ~repo.dirty /\ ~HasChangedFiles(repo)
        /\ "auto" \in repo.hist /\ repo.head = "auto"
        /\ "auto" \in remoteHist[repo.origin]
        /\ \A i \in Ops("GetRecentCommits") : calls[i].ok => calls[i].ret = "auto"

\* C20 witness: such a sync ended after rebasing the new commit onto a
\* commit fetched from the remote, and listed the recent activity.
C20_Witness ==
    /\ SyncedModifiedFile /\ Done /\ result = "nil"
    /\ "remoteC" \in repo.hist /\ "remoteC" \notin start.hist
    /\ Returned("GetRecentCommits", "auto")

\* C30: in a steady-state sync run CommitChanges is invoked exactly when
\* GetChangedFiles returned a non-empty list without error; with an empty
\* list the run goes on to the pull step and, the pull having succeeded, to
\* the push step (Push, or the progress wrapper around it failing); when GetChangedFiles or CommitChanges fails the run ends with that
\* error and neither PullWithRebase nor Push is invoked.
C30_CommitOnlyOnChanges ==
    path = "sync" =>
        /\ Invoked("CommitChanges") <=> Returned("GetChangedFiles", "some")
        /\ Returned("GetChangedFiles", "none") =>
              /\ ~Invoked("CommitChanges")
              /\ \/ pc = "Pull"
                 \/ Invoked("PullWithRebase")
                 \/ Invoked("SpinWhile")
              /\ \A i \in Ops("PullWithRebase") :
                    calls[i].ok => \/ pc = "Push" /\ i = Len(calls)
                                   \/ OpAfter(i) \in {"Push", "SpinWhile"}
        /\ (Failed("GetChangedFiles") \/ Failed("CommitChanges")) =>
              /\ Done
              /\ result \in {"GetChangedFiles", "CommitChanges"}
              /\ ~Invoked("PullWithRebase")
              /\ ~Invoked("SpinWhile")
              /\ ~Invoked("Push")

\* A sync run with nothing to commit has pulled and pushed and ended.
C30_Witness ==
    /\ path = "sync" /\ Done /\ result = "nil"
    /\ Returned("GetChangedFiles", "none")
    /\ ~Invoked("CommitChanges")
    /\ Succeeded("PullWithRebase") /\ Succeeded("Push")

-----------------------------------------------------------------------------
(* Properties of the error classifier                                      *)

\* The captured output contains the phrase, whatever its case.
HasPhrase(out, pattern) == \E t \in out : pattern \in SubPhrases(t.phrase)

\* The operation has failed and the facade has returned its error.
Classified(op) == verdict[op] # NoError

SshPhrase(out) == HasPhrase(out, "permission denied") \/ HasPhrase(out, "publickey")

\* The phrases the failure path of an operation looks for.
KnownPhrases(op) ==
    CASE op = "PushWithUpstream" ->
           {"permission denied", "publickey", "authentication failed", "403",
            "could not resolve host", "connection timed out", "network",
            "repository not found", "does not appear to be a git repository"}
      [] op = "PullWithRebase" ->
           {"permission denied", "publickey", "authentication failed", "403",
            "could not resolve host", "connection timed out", "network",
            "repository not found", "does not appear to be a git repository",
            "no tracking information", "there is no tracking information"}
      [] op = "CloneRepo" ->
           {"permission denied", "publickey", "repository not found",
            "does not appear to be a git repository", "not found",
            "empty repository",
            "warning: you appear to have cloned an empty repository"}
      [] OTHER -> {}

\* C21: failures of Push, PushWithUpstream, PullWithRebase and CloneRepo
\* with the same captured output, one that does not mention missing
\* tracking information, get the same category and the same remediation.
C21_UniformClassification ==
    \A a \in ClassifiedOps, b \in ClassifiedOps :
        (Classified(a) /\ Classified(b) /\ ~HasPhrase(output, "no tracking information"))
        => (/\ verdict[a].category = verdict[b].category
            /\ verdict[a].remediation = verdict[b].remediation)

\* C22: classification matches substrings whatever their case: an output
\* with "permission denied" or "publickey" is an ssh-auth failure with the
\* SSH-key remediation (on a pull, after the test for missing tracking
\* information); an output with "no tracking information" on a pull is a
\* no-upstream failure; an output with none of the phrases an operation
\* looks for is a generic failure, and a generic failure carries the
\* original error and the raw output and no remediation.
C22_CaseInsensitiveSubstringMatch ==
    /\ \A op \in {"PushWithUpstream", "CloneRepo"} :
          Classified(op) /\ SshPhrase(output)
          => /\ verdict[op].category = "ssh-auth"
             /\ verdict[op].remediation = "ssh-key fixes"
    /\ Classified("PullWithRebase") /\ HasPhrase(output, "no tracking information")
          => verdict["PullWithRebase"].category = "no-upstream"
    /\ (Classified("PullWithRebase") /\ SshPhrase(output)
           /\ ~HasPhrase(output, "no tracking information"))
          => (/\ verdict["PullWithRebase"].category = "ssh-auth"
              /\ verdict["PullWithRebase"].remediation = "ssh-key fixes")
    /\ \A op \in {"PushWithUpstream", "PullWithRebase", "CloneRepo"} :
          Classified(op) /\ (\A p \in KnownPhrases(op) : ~HasPhrase(output, p))
          => verdict[op].category = "generic"
    /\ \A op \in ClassifiedOps :
          Classified(op) /\ verdict[op].category = "generic"
          => /\ verdict[op].remediation = ""
             /\ verdict[op].err = cause
             /\ verdict[op].output = output

\* An output in capitals with an ssh phrase and the tracking phrase has
\* been classified on a push with upstream, a pull and a clone.
C22_Witness ==
    /\ \E t \in output : t.upper /\ t.phrase = "permission denied"
    /\ \E t \in output : t.upper /\ t.phrase = "no tracking information"
    /\ verdict["PushWithUpstream"].category = "ssh-auth"
    /\ verdict["CloneRepo"].category = "ssh-auth"
    /\ verdict["PullWithRebase"].category = "no-upstream"

-----------------------------------------------------------------------------
(* Properties of the change probe and the commit                           *)

\* The sync command has called the operation.
CmdInvoked(op) == \E i \in DOMAIN cmdCalls : cmdCalls[i].op = op


\* C23: HasUncommittedChanges maps exit code 0 of the diff probe to (false,
\* no error), exit code 1 to (true, no error), and any other exit code or
\* a failure to run the probe to an error; a sync command whose probe
\* returns an error ends there, before any commit, pull or push.
C23_ProbeOutcomeMapping ==
    /\ probe # NoProbe =>
          /\ probe.run = Exit(0) => (~probe.changes /\ probe.err = "nil")
          /\ probe.run = Exit(1) => (probe.changes /\ probe.err = "nil")
          /\ probe.run \notin {Exit(0), Exit(1)} => probe.err # "nil"
    /\ \A i \in DOMAIN cmdCalls :
          (cmdCalls[i].op = "HasUncommittedChanges" /\ cmdCalls[i].err # "nil")
          => (/\ i = Len(cmdCalls)
              /\ cmdPc = "done"
              /\ ~CmdInvoked("CommitChanges")
              /\ ~CmdInvoked("PullWithRebase")
              /\ ~CmdInvoked("Push"))

\* A sync command has ended on a probe that exited with code 128.
C23_Witness ==
    /\ probe.run = Exit(128)
    /\ cmdPc = "done"
    /\ cmdCalls[Len(cmdCalls)] = CmdCall("HasUncommittedChanges", "diff-index")

-----------------------------------------------------------------------------
(* Properties of the invocations                                           *)

\* C27 as stated: no run ends with an error produced by the directory
\* probes of Discover.
C27_Original == \A p \in Procs : inv[p].result # "ClaudeDirExists"

\* C27: the is-repository probe never fails, it answers false whenever the
\* stat of .git does not find a directory, and the run goes on; the
\* directory-existence probe answers false without error only when the
\* directory does not exist: when the home directory does not resolve or
\* the stat fails otherwise it returns an error, and exactly then the sync
\* run ends with that error.
C27_OnlyIsGitRepoNeverFails ==
    \A p \in Procs :
        (inv[p].state \in {"running", "ended"} /\ inv[p].cmd = "sync")
        => (/\ inv[p].isRepo = (inv[p].seen.gitStat = "dir")
            /\ inv[p].result = "ClaudeDirExists"
                  <=> (~inv[p].seen.home \/ inv[p].seen.dirStat = "ioerror")
            /\ (inv[p].seen.home /\ inv[p].seen.dirStat = "notexist")
                  => (~inv[p].exists /\ inv[p].plan = "firstSetup")
            /\ (inv[p].seen.dirStat = "dir" /\ inv[p].seen.gitStat # "dir")
                  => (inv[p].exists /\ inv[p].plan = "setup"))

\* A sync run has ended with the error of a directory-existence probe
\* whose stat failed with an I/O error.
C27_Witness ==
    \E p \in Procs :
        /\ inv[p].cmd = "sync"
        /\ inv[p].state = "ended"
        /\ inv[p].seen.dirStat = "ioerror"
        /\ inv[p].result = "ClaudeDirExists"

\* C28: every subprocess a sync, setup or status run has in flight was made
\* with the run's context, so that cancelling the run terminates it, and no
\* repository-modifying step started after the cancellation succeeds.
C28_SubprocessesBoundToCancellation ==
    \A p \in Procs :
        /\ inv[p].sub = "running" => CurrentStep(p).via = "CommandContext"
        /\ ~inv[p].lateMod

C31_InitRepoOnlyAfterValidatedURL ==
    /\ \A k \in Ops("InitRepo") :
          \E c \in Ops("Confirm"), i \in Ops("Input:Init"), v \in Ops("ValidateRemote") :
             /\ c < i /\ i < v /\ v < k
             /\ calls[c].ok /\ calls[c].ret = "yes"
             /\ calls[i].ok /\ calls[i].ret # ""
             /\ calls[v].ok /\ calls[v].arg = calls[i].ret
    /\ \A a \in Ops("AddRemote") :
          \E v \in Ops("ValidateRemote") :
             v < a /\ calls[v].ok /\ calls[a].arg = calls[v].arg

\* C31 witness: InitRepo and AddRemote were invoked, the latter with the URL
\* ValidateRemote had accepted.
C31_Witness ==
    /\ Invoked("InitRepo")
    /\ \E a \in Ops("AddRemote"), v \in Ops("ValidateRemote") :
          calls[v].ok /\ calls[v].arg \in URLs /\ calls[a].arg = calls[v].arg


\* C32: RemoveClaudeDir is invoked in a run only right after the user
\* selected 'replace' at ConflictChoice, which is shown only right after the
\* remote-history probe returned 'has history' without error; it is invoked
\* at most once, and never after a failed probe, a failed or cancelled
\* prompt, or any other selection.
C32_RemoveOnlyOnExplicitReplace ==
    /\ Cardinality(Ops("RemoveClaudeDir")) <= 1
    /\ \A k \in Ops("RemoveClaudeDir") :
          /\ k > 2
          /\ calls[k - 1].op = "Select:ConflictChoice"
          /\ calls[k - 1].ok /\ calls[k - 1].ret = "replace"
          /\ calls[k - 2].op = "RemoteHasCommits"
          /\ calls[k - 2].ok /\ calls[k - 2].ret = "true"
          /\ \A j \in 1..(k - 1) : calls[j].ok
    /\ path = "sync" => ~Invoked("RemoveClaudeDir")

\* C32 witness: the directory was removed after the selection 'replace'.
C32_Witness ==
    /\ Succeeded("RemoveClaudeDir")
    /\ Returned("Select:ConflictChoice", "replace")
    /\ ~start.isRepo /\ repo # start


\* C33: InitialCommit returns success exactly when staging and committing
\* succeeded (the initial commit exists), also when reading the current
\* branch or renaming it to 'main' failed; after a successful InitialCommit
\* FreshInit and MergeFlow go on to AddRemote.
C33_RenameFailureIsNotFatal ==
    \A k \in Ops("InitialCommit") :
        /\ calls[k].ok <=> "init" \in repo.hist
        /\ calls[k].ok =>
              /\ OpAfter(k) \in {"none", "AddRemote"}
              /\ OpAfter(k) = "none" <=> pc \in {"Fresh_AddRemote", "Merge_AddRemote"}
        /\ ~calls[k].ok => Done /\ result = "InitialCommit" /\ OpAfter(k) = "none"

\* C33 witness: AddRemote was invoked after an InitialCommit whose branch
\* rename had failed.
C33_Witness ==
    \E k \in Ops("InitialCommit") :
        /\ calls[k].ok /\ calls[k].ret \in {"readFailed", "renameFailed"}
        /\ OpAfter(k) = "AddRemote"


\* C34: a steady-state run whose PullWithRebase failed on a repository with
\* no upstream branch configured does not end with the pull failure: it
\* goes on to push with upstream tracking.
C34_NoUpstreamPullSetsUpstream ==
    (path = "sync" /\ Done /\ Failed("PullWithRebase") /\ IsGitRepo(repo) /\ ~repo.upstream) =>
        /\ Invoked("PushWithUpstream")
        /\ result # "PullWithRebase"


\* C35: when PullWithRebase failed and the conflict probe HasConflicts
\* returned an error, Run returns the pull error itself, the probe is the
\* run's last call, and neither AbortRebase nor Push is invoked (a rebase
\* the pull left in progress stays in progress).
C35_ProbeErrorMeansNoConflict ==
    (Failed("PullWithRebase") /\ Failed("HasConflicts")) =>
        /\ Done /\ result = "PullWithRebase"
        /\ ~Invoked("AbortRebase")
        /\ ~Invoked("Push")
        /\ calls[Len(calls)].op = "HasConflicts"
        /\ (\E k \in Ops("PullWithRebase") : calls[k].ret = "conflict") => repo.midRebase

\* C35 witness: the pull stopped on a conflict, the probe failed, and the run
\* ended with the pull error.
C35_Witness ==
    /\ Done /\ result = "PullWithRebase"
    /\ Failed("HasConflicts")
    /\ \E k \in Ops("PullWithRebase") : ~calls[k].ok /\ calls[k].ret = "conflict"


\* A run has ended by a cancellation: a declined or cancelled prompt, or the
\* empty answer to the URL prompt of the init flow.
CancelledRun == Done /\ (logged = "info" \/ result = "setup cancelled")

SuccessReport ==
    IF logged # "success" THEN "none"
    ELSE IF path = "sync" THEN "Sync complete!"
    ELSE "Setup complete!"

\* C37: 'Setup complete!' is logged in a run only after CloneRepo or
\* PushWithUpstream returned success in that run (as the run's last call),
\* 'Sync complete!' only after Push returned success (followed by the
\* activity report alone), and whenever either is logged Run returns success.
C37_SuccessReportedAfterTheWork ==
    /\ SuccessReport # "none" => Done /\ result = "nil"
    /\ SuccessReport = "Setup complete!" =>
          /\ Succeeded("CloneRepo") \/ Succeeded("PushWithUpstream")
          /\ calls[Len(calls)].op \in {"CloneRepo", "PushWithUpstream"}
          /\ calls[Len(calls)].ok
    /\ SuccessReport = "Sync complete!" =>
          /\ Succeeded("Push")
          /\ \A i \in Ops("Push") : calls[i].ok /\ OpAfter(i) = "GetRecentCommits"
          /\ calls[Len(calls)].op = "GetRecentCommits"

\* C37 witness: both reports occur: a setup run that pushed with upstream
\* was followed by a sync run that pushed.
C37_Witness ==
    /\ runs = 2 /\ SuccessReport = "Sync complete!" /\ Succeeded("Push")
    /\ ~start.dirty /\ start.upstream /\ start.head = "init" /\ "gitignore" \in start.files
    /\ "local" \notin start.files


\* The most collaborator calls a run makes: the two directory probes, the
\* first-time selection, CreateClaudeDir, the confirmation, the URL prompt,
\* ValidateRemote, RemoteHasCommits, the conflict selection and the seven
\* steps of the merge flow.
LongestRun ==
    <<"ClaudeDirExists", "ClaudeDirPath", "Select:FirstTimeChoice", "CreateClaudeDir",
      "Confirm", "Input:Init", "ValidateRemote", "RemoteHasCommits",
      "Select:ConflictChoice">> \o MergeOps

\* C38: every run terminates: a run in progress reaches a terminal state,
\* every step of a run makes at least one collaborator call and no run makes
\* more calls than the longest path of the state machine has, whatever the
\* user answers and the operations return.
C38_EveryRunTerminates ==
    /\ [](Len(calls) <= Len(LongestRun))
    /\ [][runs' = runs => Len(calls') > Len(calls)]_vars
    /\ (pc \notin {"idle", "done"}) ~> Done

\* C38 witness: a run that took the longest path has returned.
C38_Witness ==
    /\ Done /\ result = "nil"
    /\ Len(calls) = Len(LongestRun)
    /\ \A i \in 1..Len(calls) : calls[i].op = LongestRun[i] /\ calls[i].ok


\* The prompt has returned a value without error, and the key that ended it.
Answered == answer.returned /\ ~answer.err
LastKey == keys[Len(keys)]

\* The text typed before the key that ended the prompt.
TypedText == SelectSeq(SubSeq(keys, 1, Len(keys) - 1), LAMBDA k : k \in Runes)

\* t is s without the spaces around it.
IsTrimOf(t, s) ==
    /\ t = <<>> \/ (t[1] # " " /\ t[Len(t)] # " ")
    /\ \E i \in 0..Len(s), j \in 0..Len(s) :
          /\ i + Len(t) + j = Len(s)
          /\ \A n \in 1..Len(s) :
                IF n <= i \/ n > i + Len(t) THEN s[n] = " " ELSE s[n] = t[n - i]

\* C39: the prompts encode cancellation as the neutral value.  The text
\* input returns the empty string when ended with Esc or Ctrl+C, whatever
\* was typed, and the typed text without the surrounding whitespace when
\* ended with Enter.  The confirmation returns true only when ended with y
\* or Y, false when ended with n, N, Esc or Ctrl+C, and every other key
\* leaves it waiting.
C39_CancellationIsTheNeutralValue ==
    /\ (model.kind = "input" /\ Answered) =>
          /\ LastKey \in {"enter", "esc", "ctrl+c"}
          /\ LastKey \in {"esc", "ctrl+c"} => answer.text = <<>>
          /\ LastKey = "enter" => IsTrimOf(answer.text, TypedText)
          /\ \A i \in 1..(Len(keys) - 1) : keys[i] \notin {"enter", "esc", "ctrl+c"}
    /\ (model.kind = "confirm" /\ Answered) =>
          /\ answer.response <=> LastKey \in {"y", "Y"}
          /\ ~answer.response <=> LastKey \in {"n", "N", "esc", "ctrl+c"}
          /\ \A i \in 1..(Len(keys) - 1) :
                keys[i] \notin {"y", "Y", "n", "N", "esc", "ctrl+c"}
    /\ (model.kind = "confirm" /\ ~model.done) =>
          /\ \A i \in 1..Len(keys) : keys[i] \notin {"y", "Y", "n", "N", "esc", "ctrl+c"}
          /\ model = NewModel("confirm")
    /\ (model.kind = "confirm" /\ model.done) =>
          LastKey \in {"y", "Y", "n", "N", "esc", "ctrl+c"}

\* C39 witness: text typed with a space before and after it was entered and
\* came back trimmed.
C39_Witness ==
    /\ model.kind = "input" /\ Answered
    /\ keys = <<" ", "a", " ", "enter">>
    /\ answer.text = <<"a">>

====
